---- MODULE Spec2Model ----
(***************************************************************************)
(* Validator processor of gwat (package validator): the operation state    *)
(* machine behind Processor.Call.  The world state (validator records,     *)
(* balances, nonces, deposit counter, logs, validator index list) is one   *)
(* record `st`; the blockchain collaborator (slot, block, transactions,    *)
(* receipts) is the environment.  Amounts are counted in base units, with  *)
(* the wat scaled down to 10 base units (TLC integers are 32 bit wide):    *)
(* the minimum deposit of 10 wat is 100 units.                             *)
(***************************************************************************)
EXTENDS Integers, Sequences, FiniteSets, TLC

\* conf is the chain configuration the processor reads its fork slots from;
\* dag is the state of the Dag (dag/dag.go) and of its goroutines
VARIABLES st, slot, txs, pre, last, conf, dag

vars == <<st, slot, txs, pre, last, conf, dag>>

\* ------------------------------------------------------------------ bounds
MaxSlot == 8
MaxTx == 3
MaxCalls == 4
\* amounts above MaxCastable stand for amounts whose gwei count exceeds uint64
MaxCastable == 600
InitBalance == 250

\* ------------------------------------------------------- program constants
postpone == 2
MinDepositVal == 100
MaxUint64 == 2147483647
NoVer == 0
Ver1 == 1
ReceiptStatusFailed == 0
ReceiptStatusSuccessful == 1

\* chain configuration (params.ChainConfig), fixed for the model
EffectiveBalance == 200
ValidatorOpExpireSlots == 2
ForkSlotValOpTracking == 1
ForkSlotDelegate == 2
ForkSlotValSyncProc == 7
SlotsPerEpoch == 1
EpochsPerEra == 2

\* ------------------------------------------------------------------ values
ValidatorsStateAddress == "vsa"
Addr == {"a1", "a2", "a3"}
Creators == {"a1", "a2"}
PubKeys == {"pk1", "pk2"}
\* a nil pointer to a record; a nil *big.Int; the zero hash
Nil == [nil |-> TRUE]
NilAmt == -1
NoTx == 0
NoBlock == 0
NilStatus == -1

ErrNone == "ok"
ErrTooLowDepositValue == "deposit value is too low"
ErrInsufficientFundsForOp == "insufficient funds for op"
ErrInvalidFromAddresses == "withdrawal and sender addresses are mismatch"
ErrUnknownValidator == "unknown validator"
ErrNoWithdrawalCred == "no withdrawal credentials"
ErrMismatchPulicKey == "validator public key mismatch"
ErrNotActivatedValidator == "validator not activated yet"
ErrValidatorActivated == "validator is activated"
ErrValidatorIsOut == "validator is exited"
ErrInvalidToAddress == "address to must be validators state address"
ErrNoSavedValSyncOp == "no coordinated confirmation of validator sync data"
ErrValSyncTxExists == "validator sync tx already exists"
ErrValOpBlocked == "blocked by another validator operation"
ErrNoActiveWithdrawalOp == "no active withdrawal operation"
ErrMismatchValSyncOp == "validator sync tx data is not conforms to coordinated confirmation data"
ErrInvalidOpEpoch == "epoch to apply tx is not acceptable"
ErrTxNF == "tx not found"
ErrReceiptNF == "receipt not found"
ErrInvalidReceiptStatus == "receipt status is failed"
ErrInvalidOpCode == "invalid operation code"
ErrInvalidCreator == "invalid creator address"
ErrInvalidAmount == "invalid amount"
ErrMismatchDelegateData == "validator deposit failed (mismatch delegate stake data)"
ErrSenderRejByDelegate == "sender addresses rejected by delegating stake rules"
ErrDepositActivated == "validator deposit failed (validator already activated)"
ErrDepositPubKey == "validator deposit failed (mismatch public key)"
ErrDepositWithdrawalAddress == "validator deposit failed (mismatch withdrawal address)"
ErrDelegateForkRequire == "delegate fork required"
ErrBadSignature == "bad deposit signature"
\* not an error value: the nil dereference of a missing ledger entry
PanicNilStake == "panic: nil stake"
ErrPackLogData == "log data encoding failed"

\* ------------------------------------------------ chain configuration, time
IsForkSlotValOpTracking(s) == s >= ForkSlotValOpTracking
IsForkSlotDelegate(s) == s >= conf.ForkSlotDelegate
IsForkSlotValSyncProc(s) == s >= ForkSlotValSyncProc

SlotToEpoch(s) == s \div SlotsPerEpoch
SlotOfEpochStart(e) == e * SlotsPerEpoch
\* era.Era of an epoch: its number and first epoch
EpochToEra(e) == [Number |-> e \div EpochsPerEra, From |-> (e \div EpochsPerEra) * EpochsPerEra]
ReadEra(n) == [Number |-> n, From |-> n * EpochsPerEra]
\* vm.BlockContext.Era and EraInfo.Number() of the block processed at slot s
EraOfSlot(s) == EpochToEra(SlotToEpoch(s)).Number

BnCanCastToUint64Gwei(v) == v >= 0 /\ v <= MaxCastable

\* ------------------------------------------------ delegating stake data
AddrOrder == <<"a1", "a2", "a3">>

Rules1 == [ProfitShare |-> [a \in {"a1", "a2", "a3"} |-> IF a = "a1" THEN 10 ELSE IF a = "a2" THEN 30 ELSE 60],
           StakeShare |-> [a \in {"a1", "a2"} |-> IF a = "a1" THEN 70 ELSE 30],
           Exit |-> <<"a3">>, Withdrawal |-> <<"a3">>]
Rules2 == [ProfitShare |-> [a \in {"a2"} |-> 100],
           StakeShare |-> [a \in {"a2"} |-> 100],
           Exit |-> <<"a2">>, Withdrawal |-> <<"a2">>]
RulesBad == [ProfitShare |-> [a \in {"a2"} |-> 90],
             StakeShare |-> [a \in {"a2"} |-> 100],
             Exit |-> <<"a2">>, Withdrawal |-> <<"a2">>]
Dlg1 == [Rules |-> Rules1, TrialPeriod |-> 2, TrialRules |-> Rules2]
Dlg2 == [Rules |-> Rules2, TrialPeriod |-> 2, TrialRules |-> Rules2]
DlgBad == [Rules |-> RulesBad, TrialPeriod |-> 2, TrialRules |-> Rules2]

RECURSIVE SumShares(_, _)
SumShares(m, S) ==
  IF S = {} THEN 0
  ELSE LET a == CHOOSE x \in S : TRUE IN m[a] + SumShares(m, S \ {a})

\* a variant that accepts rules without withdrawal roles
RulesValidate_NoWithdrawalCheck(r) ==
  IF SumShares(r.ProfitShare, DOMAIN r.ProfitShare) # 100 THEN "ErrBadProfitShare"
  ELSE IF SumShares(r.StakeShare, DOMAIN r.StakeShare) # 100 THEN "ErrBadStakeShare"
  ELSE IF Len(r.Exit) = 0 THEN "ErrNoExitRoles"
  ELSE ErrNone

\* DelegatingStakeRules.Validate: the first violated rule, or ErrNone
RulesValidate(r) ==
  IF SumShares(r.ProfitShare, DOMAIN r.ProfitShare) # 100 THEN "ErrBadProfitShare"
  ELSE IF SumShares(r.StakeShare, DOMAIN r.StakeShare) # 100 THEN "ErrBadStakeShare"
  ELSE IF Len(r.Exit) = 0 THEN "ErrNoExitRoles"
  ELSE IF Len(r.Withdrawal) = 0 THEN "ErrNoWithdrawalRoles"
  ELSE ErrNone

\* binary form of a share map: one <<address index, percent>> pair per holder
RECURSIVE EncShares(_, _)
EncShares(m, i) ==
  IF i > Len(AddrOrder) THEN << >>
  ELSE (IF AddrOrder[i] \in DOMAIN m THEN <<i, m[AddrOrder[i]]>> ELSE << >>) \o EncShares(m, i + 1)

EncRules(r) ==
  <<Len(EncShares(r.ProfitShare, 1))>> \o EncShares(r.ProfitShare, 1)
  \o <<Len(EncShares(r.StakeShare, 1))>> \o EncShares(r.StakeShare, 1)
  \o <<Len(r.Exit)>> \o r.Exit \o <<Len(r.Withdrawal)>> \o r.Withdrawal

\* DelegatingStakeData.MarshalBinary; a nil receiver gives no bytes
DlgMarshalBinary(d) ==
  IF d = Nil THEN << >>
  ELSE <<d.TrialPeriod>> \o EncRules(d.Rules) \o EncRules(d.TrialRules)

\* ------------------------------------------------ validator record store
EmptyStake == [a \in {} |-> 0]

NewValidator(pubKey, creator, withdrawal) ==
  [PubKey |-> pubKey, Address |-> creator, WithdrawalAddress |-> withdrawal,
   Index |-> MaxUint64, ActivationEra |-> MaxUint64, ExitEra |-> MaxUint64,
   Stake |-> EmptyStake, DepositTxs |-> {}, ExitTx |-> NoTx, WithdrawalTx |-> NoTx,
   DelegatingStake |-> Nil, Ver |-> NoVer]

GetValidator(s, a) == IF a \in DOMAIN s.validators THEN s.validators[a] ELSE Nil
Version(v) == v.Ver
SetValidator(s, v) == [s EXCEPT !.validators[v.Address] = v]

StakeByAddress(v, a) == IF a \in DOMAIN v.Stake THEN v.Stake[a] ELSE NilAmt
AddStake(v, a, amt) ==
  [v EXCEPT !.Stake = [x \in (DOMAIN v.Stake) \cup {a} |->
      (IF x \in DOMAIN v.Stake THEN v.Stake[x] ELSE 0) + (IF x = a THEN amt ELSE 0)]]
SubtractStake(v, a, amt) == [v EXCEPT !.Stake[a] = @ - amt]
RmStakeByAddress(v, a) == [v EXCEPT !.Stake = [x \in (DOMAIN v.Stake) \ {a} |-> v.Stake[x]]]
UnsetStake(v) == [v EXCEPT !.Stake = EmptyStake]
RECURSIVE SumStake(_, _)
SumStake(f, S) ==
  IF S = {} THEN 0
  ELSE LET a == CHOOSE x \in S : TRUE IN f[a] + SumStake(f, S \ {a})
TotalStake(v) == SumStake(v.Stake, DOMAIN v.Stake)
HasDelegatingStake(v) == v.DelegatingStake # Nil

AddValidatorToList(s, index, creator) ==
  [s EXCEPT !.valList = [i \in (DOMAIN s.valList) \cup {index} |->
      IF i = index THEN creator ELSE s.valList[i]]]
\* a variant of the event emitter that drops the entry
AddLog_Drop(s, l) == s
AddLog(s, l) == [s EXCEPT !.logs = Append(@, l)]
AddBalance(s, a, amt) == [s EXCEPT !.balances[a] = @ + amt]
SubBalance(s, a, amt) == [s EXCEPT !.balances[a] = @ - amt]

\* ------------------------------------------------ blockchain collaborator
\* c is the processor's view of the chain: the block context (Slot, Era,
\* BlockHash) and the recorded transactions with their receipts.
KnownTx(c, h) == h \in 1..Len(c.txs)

\* (rc, blHash): a receipt that is not indexed gives (nil, zero hash)
GetTransactionReceipt(c, h) ==
  IF KnownTx(c, h) /\ c.txs[h].rc # "none"
  THEN [Status |-> IF c.txs[h].rc = "ok" THEN ReceiptStatusSuccessful ELSE ReceiptStatusFailed,
        blHash |-> c.txs[h].bl]
  ELSE [Status |-> NilStatus, blHash |-> NoBlock]

GetHeaderByHash(c, bl) ==
  IF \E h \in 1..Len(c.txs) : c.txs[h].bl = bl
  THEN [Slot |-> c.txs[CHOOSE h \in 1..Len(c.txs) : c.txs[h].bl = bl].slot]
  ELSE Nil

GetTransaction(c, h) == IF KnownTx(c, h) THEN c.txs[h] ELSE Nil

Ok(s, r) == [err |-> ErrNone, s |-> s, ret |-> r]
Fail(s, e) == [err |-> e, s |-> s, ret |-> Nil]

\* ------------------------------------------------ Processor
\* a variant that leaves the version of the record as it finds it
updateValidatorVersionBySlot_Keep(c, v) == v

updateValidatorVersionBySlot(c, v) ==
  [v EXCEPT !.Ver = IF IsForkSlotValOpTracking(c.Slot) THEN Ver1 ELSE NoVer]

\* the expiration test shared by the three request handlers and UpdateBalance
OpNotExpired(c, prevOpTx) ==
  LET r == GetTransactionReceipt(c, prevOpTx)
      prevHeader == GetHeaderByHash(c, r.blHash)
  IN r.Status # NilStatus /\ r.Status = ReceiptStatusSuccessful
     /\ prevHeader # Nil /\ c.Slot < prevHeader.Slot + ValidatorOpExpireSlots

OpInSameBlock(c, prevOpTx) ==
  LET r == GetTransactionReceipt(c, prevOpTx)
  IN r.blHash # NoBlock /\ r.blHash = c.BlockHash

\* a variant of the check that only looks at the current block
DepositBlocked_SameBlockOnly(c, validator) ==
  /\ Version(validator) >= Ver1
  /\ validator.WithdrawalTx # NoTx
  /\ OpInSameBlock(c, validator.WithdrawalTx)

\* validatorDeposit, "ver1 data validation"
DepositBlocked(c, validator) ==
  /\ Version(validator) >= Ver1
  /\ validator.WithdrawalTx # NoTx
  /\ (OpInSameBlock(c, validator.WithdrawalTx) \/ OpNotExpired(c, validator.WithdrawalTx))

\* a variant that looks the record up under the sender
DepositLookup_BySender(s, from, op) == GetValidator(s, from)

\* validatorDeposit, the record the deposit is applied to
DepositLookup(s, from, op) == GetValidator(s, op.CreatorAddress)

\* a variant of the compliance check that does not compare the delegating data
DepositCompliance_NoDelegateCheck(curr, op) ==
  IF curr.ActivationEra < MaxUint64 THEN ErrDepositActivated
  ELSE IF curr.PubKey # op.PubKey THEN ErrDepositPubKey
  ELSE IF curr.WithdrawalAddress # op.WithdrawalAddress THEN ErrDepositWithdrawalAddress
  ELSE ErrNone

\* validatorDeposit, "if validator already exist - check data compliance"
\* a variant that accepts a deposit for an activated validator
DepositCompliance_NoActivatedCheck(curr, op) ==
  IF curr.PubKey # op.PubKey THEN ErrDepositPubKey
  ELSE IF curr.WithdrawalAddress # op.WithdrawalAddress THEN ErrDepositWithdrawalAddress
  ELSE IF DlgMarshalBinary(curr.DelegatingStake) # DlgMarshalBinary(op.DelegatingStake)
       THEN ErrMismatchDelegateData
  ELSE ErrNone

DepositCompliance(curr, op) ==
  IF curr.ActivationEra < MaxUint64 THEN ErrDepositActivated
  ELSE IF curr.PubKey # op.PubKey THEN ErrDepositPubKey
  ELSE IF curr.WithdrawalAddress # op.WithdrawalAddress THEN ErrDepositWithdrawalAddress
  ELSE IF DlgMarshalBinary(curr.DelegatingStake) # DlgMarshalBinary(op.DelegatingStake)
       THEN ErrMismatchDelegateData
  ELSE ErrNone

\* ValidatePartialDepositOp: the same comparison, offered to callers outside the handler
ValidatePartialDepositOp(validator, op) ==
  IF validator.Address # op.CreatorAddress THEN ErrInvalidCreator
  ELSE IF validator.PubKey # op.PubKey THEN ErrDepositPubKey
  ELSE IF validator.WithdrawalAddress # op.WithdrawalAddress THEN ErrDepositWithdrawalAddress
  ELSE IF DlgMarshalBinary(validator.DelegatingStake) # DlgMarshalBinary(op.DelegatingStake)
       THEN ErrMismatchDelegateData
  ELSE ErrNone

\* a variant of the checks that does not look at the sender's balance
DepositPrecheck_NoFundsCheck(s, c, from, toAddr, value, op) ==
  IF toAddr # ValidatorsStateAddress THEN ErrInvalidToAddress
  ELSE IF ~op.sigOk THEN ErrBadSignature
  ELSE IF value = NilAmt \/ value < MinDepositVal THEN ErrTooLowDepositValue
  ELSE IF ~BnCanCastToUint64Gwei(value) THEN ErrInvalidAmount
  ELSE IF op.DelegatingStake # Nil /\ ~IsForkSlotDelegate(c.Slot) THEN ErrDelegateForkRequire
  ELSE IF op.DelegatingStake # Nil THEN RulesValidate(op.DelegatingStake.Rules)
  ELSE ErrNone

\* validatorDeposit, the checks made before the record is looked up
DepositPrecheck(s, c, from, toAddr, value, op) ==
  IF toAddr # ValidatorsStateAddress THEN ErrInvalidToAddress
  ELSE IF ~op.sigOk THEN ErrBadSignature
  ELSE IF value = NilAmt \/ value < MinDepositVal THEN ErrTooLowDepositValue
  ELSE IF ~BnCanCastToUint64Gwei(value) THEN ErrInvalidAmount
  ELSE IF s.balances[from] < value THEN ErrInsufficientFundsForOp
  ELSE IF op.DelegatingStake # Nil /\ ~IsForkSlotDelegate(c.Slot) THEN ErrDelegateForkRequire
  ELSE IF op.DelegatingStake # Nil THEN RulesValidate(op.DelegatingStake.Rules)
  ELSE ErrNone

\* a variant of the mutation that overwrites the sender's ledger entry
DepositApply_Overwrite(s, c, from, toAddr, value, op, txHash, validator) ==
  LET v1 == updateValidatorVersionBySlot(c, validator)
      v2 == [v1 EXCEPT !.DepositTxs = @ \cup {txHash}]
      v3 == [v2 EXCEPT !.Stake = [x \in (DOMAIN v2.Stake) \cup {from} |->
                                    IF x = from THEN value ELSE v2.Stake[x]]]
      s1 == SetValidator(s, v3)
      s2 == AddLog(s1, [Address |-> toAddr, Evt |-> "Deposit", Creator |-> op.CreatorAddress,
                        Index |-> s1.depositCount])
      s3 == [s2 EXCEPT !.depositCount = @ + 1]
  IN SubBalance(s3, from, value)

\* validatorDeposit, the mutation: stake, deposit tx, log, counter, balance
DepositApply(s, c, from, toAddr, value, op, txHash, validator) ==
  LET v1 == updateValidatorVersionBySlot(c, validator)
      v2 == [v1 EXCEPT !.DepositTxs = @ \cup {txHash}]
      v3 == AddStake(v2, from, value)
      s1 == SetValidator(s, v3)
      s2 == AddLog(s1, [Address |-> toAddr, Evt |-> "Deposit", Creator |-> op.CreatorAddress,
                        Index |-> s1.depositCount])
      s3 == [s2 EXCEPT !.depositCount = @ + 1]
  IN SubBalance(s3, from, value)

validatorDeposit(s, c, from, toAddr, value, op, txHash) ==
  LET pe == DepositPrecheck(s, c, from, toAddr, value, op) IN
  IF pe # ErrNone THEN Fail(s, pe)
  ELSE
    LET fresh == [NewValidator(op.PubKey, op.CreatorAddress, op.WithdrawalAddress)
                    EXCEPT !.DelegatingStake = op.DelegatingStake]
        currValidator == DepositLookup(s, from, op)
        ce == IF currValidator # Nil THEN DepositCompliance(currValidator, op) ELSE ErrNone
        validator == IF currValidator # Nil THEN currValidator ELSE fresh
    IN IF ce # ErrNone THEN Fail(s, ce)
       ELSE IF DepositBlocked(c, validator) THEN Fail(s, ErrValOpBlocked)
       ELSE Ok(DepositApply(s, c, from, toAddr, value, op, txHash, validator), value)

InList(a, l) == \E i \in 1..Len(l) : l[i] = a

\* a variant that forgets the validator that exited during its trial period
isValidatorTrialPeriod_NoExitCase(c, validator) ==
  IF validator.ActivationEra > c.Era THEN TRUE
  ELSE
    LET activationSlot == SlotOfEpochStart(ReadEra(validator.ActivationEra).From)
        endTrialSlot == activationSlot + validator.DelegatingStake.TrialPeriod
    IN endTrialSlot >= c.Slot

isValidatorTrialPeriod(c, validator) ==
  IF validator.ActivationEra > c.Era THEN TRUE
  ELSE
    LET activationSlot == SlotOfEpochStart(ReadEra(validator.ActivationEra).From)
        endTrialSlot == activationSlot + validator.DelegatingStake.TrialPeriod
    IN IF endTrialSlot >= c.Slot THEN TRUE
       ELSE IF validator.ExitEra <= c.Era
               /\ SlotOfEpochStart(ReadEra(validator.ExitEra).From) <= endTrialSlot THEN TRUE
       ELSE FALSE

\* the rules in force: TrialRules during the trial period
ActualRules(c, validator) ==
  IF isValidatorTrialPeriod(c, validator) THEN validator.DelegatingStake.TrialRules
  ELSE validator.DelegatingStake.Rules

\* a variant of the check whose block never expires
ExitBlocked_NeverExpires(c, validator) ==
  /\ Version(validator) >= Ver1
  /\ validator.ExitTx # NoTx
  /\ (OpInSameBlock(c, validator.ExitTx)
      \/ GetTransactionReceipt(c, validator.ExitTx).Status = ReceiptStatusSuccessful)

\* validatorExit, "ver1 data validation"
ExitBlocked(c, validator) ==
  /\ Version(validator) >= Ver1
  /\ validator.ExitTx # NoTx
  /\ (OpInSameBlock(c, validator.ExitTx) \/ OpNotExpired(c, validator.ExitTx))

\* a variant of the authorization that never applies the trial rules
ExitAuthErr_RulesOnly(c, validator, from) ==
  IF HasDelegatingStake(validator)
  THEN IF InList(from, validator.DelegatingStake.Rules.Exit) THEN ErrNone
       ELSE ErrSenderRejByDelegate
  ELSE IF from # validator.WithdrawalAddress THEN ErrInvalidFromAddresses ELSE ErrNone

\* validatorExit, the sender's authorization
ExitAuthErr(c, validator, from) ==
  IF HasDelegatingStake(validator)
  THEN IF InList(from, ActualRules(c, validator).Exit) THEN ErrNone ELSE ErrSenderRejByDelegate
  ELSE IF from # validator.WithdrawalAddress THEN ErrInvalidFromAddresses ELSE ErrNone

\* a variant of the handler that accepts the request of an exited validator
validatorExit_NoExitedCheck(s, c, from, toAddr, op, txHash) ==
  LET validator == GetValidator(s, op.CreatorAddress) IN
  IF toAddr # ValidatorsStateAddress THEN Fail(s, ErrInvalidToAddress)
  ELSE IF validator = Nil THEN Fail(s, ErrUnknownValidator)
  ELSE IF validator.PubKey # op.PubKey THEN Fail(s, ErrMismatchPulicKey)
  ELSE IF validator.ActivationEra > c.Era THEN Fail(s, ErrNotActivatedValidator)
  ELSE IF ExitAuthErr(c, validator, from) # ErrNone THEN Fail(s, ExitAuthErr(c, validator, from))
  ELSE IF ExitBlocked(c, validator) THEN Fail(s, ErrValOpBlocked)
  ELSE
    LET v1 == updateValidatorVersionBySlot(c, validator)
        v2 == [v1 EXCEPT !.ExitTx = txHash]
        s1 == SetValidator(s, v2)
        exitAfterEpoch == IF op.ExitAfterEpoch = NilAmt THEN SlotToEpoch(c.Slot) + 1
                          ELSE op.ExitAfterEpoch
    IN Ok(AddLog(s1, [Address |-> toAddr, Evt |-> "ExitRequest", Creator |-> op.CreatorAddress,
                      Index |-> exitAfterEpoch]), op.CreatorAddress)

validatorExit(s, c, from, toAddr, op, txHash) ==
  LET validator == GetValidator(s, op.CreatorAddress) IN
  IF toAddr # ValidatorsStateAddress THEN Fail(s, ErrInvalidToAddress)
  ELSE IF validator = Nil THEN Fail(s, ErrUnknownValidator)
  ELSE IF validator.PubKey # op.PubKey THEN Fail(s, ErrMismatchPulicKey)
  ELSE IF validator.ActivationEra > c.Era THEN Fail(s, ErrNotActivatedValidator)
  ELSE IF validator.ExitEra # MaxUint64 THEN Fail(s, ErrValidatorIsOut)
  ELSE IF ExitAuthErr(c, validator, from) # ErrNone THEN Fail(s, ExitAuthErr(c, validator, from))
  ELSE IF ExitBlocked(c, validator) THEN Fail(s, ErrValOpBlocked)
  ELSE
    LET v1 == updateValidatorVersionBySlot(c, validator)
        v2 == [v1 EXCEPT !.ExitTx = txHash]
        s1 == SetValidator(s, v2)
        exitAfterEpoch == IF op.ExitAfterEpoch = NilAmt THEN SlotToEpoch(c.Slot) + 1
                          ELSE op.ExitAfterEpoch
    IN Ok(AddLog(s1, [Address |-> toAddr, Evt |-> "ExitRequest", Creator |-> op.CreatorAddress,
                      Index |-> exitAfterEpoch]), op.CreatorAddress)

\* a variant of the check whose block never expires
WithdrawalBlocked_NeverExpires(c, validator) ==
  /\ Version(validator) >= Ver1
  /\ validator.WithdrawalTx # NoTx
  /\ (OpInSameBlock(c, validator.WithdrawalTx)
      \/ GetTransactionReceipt(c, validator.WithdrawalTx).Status = ReceiptStatusSuccessful)

\* validatorWithdrawal, "ver1 data validation"
WithdrawalBlocked(c, validator) ==
  /\ Version(validator) >= Ver1
  /\ validator.WithdrawalTx # NoTx
  /\ (OpInSameBlock(c, validator.WithdrawalTx) \/ OpNotExpired(c, validator.WithdrawalTx))

\* "deposit is insufficient to activate validator"
IsInsufficientDeposit(validator) ==
  validator.ActivationEra = MaxUint64 /\ TotalStake(validator) < EffectiveBalance

\* a variant of the authorization that does not compare the amount with the entry
WithdrawalAuthErr_NoAmountCheck(c, validator, from, opAmount) ==
  IF IsInsufficientDeposit(validator)
  THEN LET stakeByAddr == StakeByAddress(validator, from) IN
       IF stakeByAddr = NilAmt \/ stakeByAddr = 0 THEN ErrInvalidFromAddresses
       ELSE ErrNone
  ELSE IF HasDelegatingStake(validator)
  THEN IF InList(from, ActualRules(c, validator).Withdrawal) THEN ErrNone
       ELSE ErrSenderRejByDelegate
  ELSE IF from # validator.WithdrawalAddress THEN ErrInvalidFromAddresses ELSE ErrNone

\* validatorWithdrawal, the sender's authorization on each of the three paths
WithdrawalAuthErr(c, validator, from, opAmount) ==
  IF IsInsufficientDeposit(validator)
  THEN LET stakeByAddr == StakeByAddress(validator, from) IN
       IF stakeByAddr = NilAmt \/ stakeByAddr = 0 THEN ErrInvalidFromAddresses
       ELSE IF stakeByAddr < opAmount THEN ErrInsufficientFundsForOp
       ELSE ErrNone
  ELSE IF HasDelegatingStake(validator)
  THEN IF InList(from, ActualRules(c, validator).Withdrawal) THEN ErrNone
       ELSE ErrSenderRejByDelegate
  ELSE IF from # validator.WithdrawalAddress THEN ErrInvalidFromAddresses ELSE ErrNone

\* a variant of the refund that takes the amount from the ledger at every slot
WithdrawalRefund_Always(c, validator, from, amt) ==
  LET v1 == SubtractStake(validator, from, amt) IN
  IF StakeByAddress(v1, from) = 0 THEN RmStakeByAddress(v1, from) ELSE v1

\* validatorWithdrawal, the refund of an insufficient deposit taken from the ledger
WithdrawalRefund(c, validator, from, amt) ==
  IF ~IsForkSlotValOpTracking(c.Slot)
  THEN LET v1 == SubtractStake(validator, from, amt) IN
       IF StakeByAddress(v1, from) = 0 THEN RmStakeByAddress(v1, from) ELSE v1
  ELSE validator

validatorWithdrawal(s, c, from, toAddr, op, txHash) ==
  LET validator == GetValidator(s, op.CreatorAddress) IN
  IF toAddr # ValidatorsStateAddress THEN Fail(s, ErrInvalidToAddress)
  ELSE IF ~BnCanCastToUint64Gwei(op.Amount) THEN Fail(s, ErrInvalidAmount)
  ELSE IF validator = Nil THEN Fail(s, ErrUnknownValidator)
  ELSE IF WithdrawalBlocked(c, validator) THEN Fail(s, ErrValOpBlocked)
  ELSE
    LET v1 == updateValidatorVersionBySlot(c, validator)
        v2 == [v1 EXCEPT !.WithdrawalTx = txHash]
        ae == WithdrawalAuthErr(c, v2, from, op.Amount)
    IN IF ae # ErrNone THEN Fail(s, ae)
       ELSE
         LET refund == IsInsufficientDeposit(v2)
             opAmount == IF refund /\ op.Amount = 0 THEN StakeByAddress(v2, from) ELSE op.Amount
             v3 == IF refund THEN WithdrawalRefund(c, v2, from, opAmount) ELSE v2
             s1 == SetValidator(s, v3)
         IN Ok(AddLog(s1, [Address |-> toAddr, Evt |-> "WithdrawalRequest",
                           Creator |-> op.CreatorAddress, Index |-> opAmount]),
               op.CreatorAddress)

\* ------------------------------------------------ validator sync operations
ActivateCode == "Activate"
DeactivateCode == "Deactivate"
UpdateBalanceCode == "UpdateBalance"
DepositCode == "Deposit"
ExitCode == "Exit"
WithdrawalCode == "Withdrawal"

\* a slashing-initiated op: the first 20 bytes of InitTxHash are the creator
SlashHash(creator) == IF creator = "a1" THEN 101 ELSE IF creator = "a2" THEN 102 ELSE 103
IsSlashInit(op) == op.InitTxHash = SlashHash(op.Creator)

\* a variant of the comparison that ignores the validator index
CompareValSync_NoIndex(saved, input, isForkDelegate) ==
  IF saved.InitTxHash # input.InitTxHash THEN FALSE
  ELSE IF saved.OpType # input.OpType THEN FALSE
  ELSE IF saved.Creator # input.Creator THEN FALSE
  ELSE IF ~isForkDelegate /\ saved.ProcEpoch > input.ProcEpoch THEN FALSE
  ELSE IF saved.Amount # NilAmt /\ input.Amount # NilAmt /\ saved.Amount # input.Amount THEN FALSE
  ELSE IF (saved.Amount # NilAmt /\ input.Amount = NilAmt)
          \/ (saved.Amount = NilAmt /\ input.Amount # NilAmt) THEN FALSE
  ELSE TRUE

CompareValSync(saved, input, isForkDelegate) ==
  IF saved.InitTxHash # input.InitTxHash THEN FALSE
  ELSE IF saved.OpType # input.OpType THEN FALSE
  ELSE IF saved.Creator # input.Creator THEN FALSE
  ELSE IF saved.Index # input.Index THEN FALSE
  ELSE IF ~isForkDelegate /\ saved.ProcEpoch > input.ProcEpoch THEN FALSE
  ELSE IF saved.Amount # NilAmt /\ input.Amount # NilAmt /\ saved.Amount # input.Amount THEN FALSE
  ELSE IF (saved.Amount # NilAmt /\ input.Amount = NilAmt)
          \/ (saved.Amount = NilAmt /\ input.Amount # NilAmt) THEN FALSE
  ELSE TRUE

\* a variant of the check that does not look at the receipt
ValidateInitTx_NoReceiptCheck(c, valSyncOp) ==
  LET initTx == GetTransaction(c, valSyncOp.InitTxHash)
  IN IF initTx = Nil THEN ErrTxNF
     ELSE IF initTx.kind \notin {DepositCode, ExitCode, WithdrawalCode} THEN ErrInvalidOpCode
     ELSE IF valSyncOp.OpCode = initTx.kind THEN ErrInvalidOpCode
     ELSE IF initTx.creator # valSyncOp.Creator THEN ErrInvalidCreator
     ELSE IF initTx.kind = ExitCode /\ initTx.exitAfterEpoch # NilAmt
             /\ initTx.exitAfterEpoch > valSyncOp.ProcEpoch THEN ErrInvalidOpEpoch
     ELSE IF initTx.kind = WithdrawalCode /\ valSyncOp.Version = Ver1
             /\ valSyncOp.Balance = NilAmt THEN "ErrNoBalance"
     ELSE ErrNone

\* ValidateValidatorSyncOp, the check of the initiating transaction
ValidateInitTx(c, valSyncOp) ==
  LET initTx == GetTransaction(c, valSyncOp.InitTxHash)
      rc == GetTransactionReceipt(c, valSyncOp.InitTxHash)
  IN IF initTx = Nil THEN ErrTxNF
     ELSE IF initTx.kind \notin {DepositCode, ExitCode, WithdrawalCode} THEN ErrInvalidOpCode
     ELSE IF valSyncOp.OpCode = initTx.kind THEN ErrInvalidOpCode
     ELSE IF initTx.creator # valSyncOp.Creator THEN ErrInvalidCreator
     ELSE IF initTx.kind = ExitCode /\ initTx.exitAfterEpoch # NilAmt
             /\ initTx.exitAfterEpoch > valSyncOp.ProcEpoch THEN ErrInvalidOpEpoch
     ELSE IF initTx.kind = WithdrawalCode /\ valSyncOp.Version = Ver1
             /\ valSyncOp.Balance = NilAmt THEN "ErrNoBalance"
     ELSE IF rc.Status = NilStatus THEN ErrReceiptNF
     ELSE IF rc.Status # ReceiptStatusSuccessful THEN ErrInvalidReceiptStatus
     ELSE ErrNone

\* a variant that never accepts a re-submission
ValidateValidatorSyncOp_NoResubmission(c, valSyncOp, applySlot, txHash) ==
  LET savedValSync == c.saved
      isForkDelegate == IsForkSlotDelegate(applySlot)
  IN IF savedValSync = Nil THEN ErrNoSavedValSyncOp
     ELSE IF ~isForkDelegate /\ SlotToEpoch(applySlot) > valSyncOp.ProcEpoch THEN ErrInvalidOpEpoch
     ELSE IF ~CompareValSync(savedValSync, valSyncOp, isForkDelegate) THEN ErrMismatchValSyncOp
     ELSE IF savedValSync.TxHash # NoTx /\ savedValSync.TxHash # txHash THEN ErrValSyncTxExists
     ELSE IF IsSlashInit(valSyncOp) THEN ErrNone
     ELSE ValidateInitTx(c, valSyncOp)

ValidateValidatorSyncOp(c, valSyncOp, applySlot, txHash) ==
  LET savedValSync == c.saved
      isForkDelegate == IsForkSlotDelegate(applySlot)
  IN IF savedValSync = Nil THEN ErrNoSavedValSyncOp
     ELSE IF ~isForkDelegate /\ SlotToEpoch(applySlot) > valSyncOp.ProcEpoch THEN ErrInvalidOpEpoch
     ELSE IF ~CompareValSync(savedValSync, valSyncOp, isForkDelegate) THEN ErrMismatchValSyncOp
     ELSE IF savedValSync.TxHash # NoTx /\ savedValSync.TxHash # txHash
             /\ (~isForkDelegate
                 \/ GetTransactionReceipt(c, savedValSync.TxHash).Status = ReceiptStatusSuccessful)
          THEN ErrValSyncTxExists
     ELSE IF IsSlashInit(valSyncOp) THEN ErrNone
     ELSE ValidateInitTx(c, valSyncOp)

\* a variant that schedules the activation from the era of the block context
ActivationEraOf_ContextEra(c, op) == c.Era + postpone

\* validatorActivate, the era the activation is scheduled for
ActivationEraOf(c, op) == EpochToEra(op.ProcEpoch).Number + postpone

\* a variant of the handler that activates whatever the record's activation era is
validatorActivate_NoActivatedCheck(s, c, op) ==
  LET validator == GetValidator(s, op.Creator) IN
  IF validator = Nil THEN Fail(s, ErrUnknownValidator)
  ELSE
    LET v1 == updateValidatorVersionBySlot(c, validator)
        v2 == [v1 EXCEPT !.DepositTxs = {}]
        v3 == [v2 EXCEPT !.ActivationEra = ActivationEraOf(c, op)]
        v4 == [v3 EXCEPT !.Index = op.Index]
        v5 == UnsetStake(v4)
        s1 == SetValidator(s, v5)
        s2 == AddValidatorToList(s1, op.Index, op.Creator)
    IN IF IsForkSlotDelegate(c.Slot)
       THEN IF c.packFails THEN Fail(s2, ErrPackLogData)
            ELSE Ok(AddLog(s2, [Address |-> ValidatorsStateAddress, Evt |-> "Activate",
                                Creator |-> op.Creator, Index |-> op.Index]), op.Creator)
       ELSE Ok(s2, op.Creator)

\* a variant that refuses a repeated activation only before the fork
validatorActivate_CheckBeforeFork(s, c, op) ==
  LET validator == GetValidator(s, op.Creator) IN
  IF validator = Nil THEN Fail(s, ErrUnknownValidator)
  ELSE IF ~IsForkSlotValOpTracking(c.Slot) /\ validator.ActivationEra # MaxUint64
       THEN Fail(s, ErrValidatorActivated)
  ELSE
    LET v1 == updateValidatorVersionBySlot(c, validator)
        v2 == [v1 EXCEPT !.DepositTxs = {}]
        v3 == [v2 EXCEPT !.ActivationEra = ActivationEraOf(c, op)]
        v4 == [v3 EXCEPT !.Index = op.Index]
        v5 == UnsetStake(v4)
        s1 == SetValidator(s, v5)
        s2 == AddValidatorToList(s1, op.Index, op.Creator)
    IN IF IsForkSlotDelegate(c.Slot)
       THEN IF c.packFails THEN Fail(s2, ErrPackLogData)
            ELSE Ok(AddLog(s2, [Address |-> ValidatorsStateAddress, Evt |-> "Activate",
                                Creator |-> op.Creator, Index |-> op.Index]), op.Creator)
       ELSE Ok(s2, op.Creator)

validatorActivate(s, c, op) ==
  LET validator == GetValidator(s, op.Creator) IN
  IF validator = Nil THEN Fail(s, ErrUnknownValidator)
  ELSE IF IsForkSlotValOpTracking(c.Slot) /\ validator.ActivationEra # MaxUint64
       THEN Fail(s, ErrValidatorActivated)
  ELSE
    LET v1 == updateValidatorVersionBySlot(c, validator)
        v2 == [v1 EXCEPT !.DepositTxs = {}]
        v3 == [v2 EXCEPT !.ActivationEra = ActivationEraOf(c, op)]
        v4 == [v3 EXCEPT !.Index = op.Index]
        v5 == UnsetStake(v4)
        s1 == SetValidator(s, v5)
        s2 == AddValidatorToList(s1, op.Index, op.Creator)
    IN IF IsForkSlotDelegate(c.Slot)
       THEN IF c.packFails THEN Fail(s2, ErrPackLogData)
            ELSE Ok(AddLog(s2, [Address |-> ValidatorsStateAddress, Evt |-> "Activate",
                                Creator |-> op.Creator, Index |-> op.Index]), op.Creator)
       ELSE Ok(s2, op.Creator)

\* validatorDeactivate, the era the activation era is compared with
DeactivateCheckEra(c, op) ==
  IF IsForkSlotValSyncProc(c.Slot) THEN c.Era ELSE EpochToEra(op.ProcEpoch).Number

\* validatorDeactivate, the era the exit is scheduled for
ExitEraOf(c, op) == EpochToEra(op.ProcEpoch).Number + postpone

\* a variant that accepts a deactivation in the very era of the activation
validatorDeactivate_SameEra(s, c, op) ==
  LET validator == GetValidator(s, op.Creator) IN
  IF validator = Nil THEN Fail(s, ErrUnknownValidator)
  ELSE IF validator.ExitEra # MaxUint64 THEN Fail(s, ErrValidatorIsOut)
  ELSE IF validator.ActivationEra > DeactivateCheckEra(c, op) THEN Fail(s, ErrNotActivatedValidator)
  ELSE
    LET v1 == updateValidatorVersionBySlot(c, validator)
        v2 == [v1 EXCEPT !.ExitTx = NoTx]
        v3 == [v2 EXCEPT !.ExitEra = ExitEraOf(c, op)]
        s1 == SetValidator(s, v3)
    IN IF IsForkSlotDelegate(c.Slot)
       THEN IF c.packFails THEN Fail(s1, ErrPackLogData)
            ELSE Ok(AddLog(s1, [Address |-> ValidatorsStateAddress, Evt |-> "Deactivate",
                                Creator |-> op.Creator, Index |-> op.Index]), op.Creator)
       ELSE Ok(s1, op.Creator)

validatorDeactivate(s, c, op) ==
  LET validator == GetValidator(s, op.Creator) IN
  IF validator = Nil THEN Fail(s, ErrUnknownValidator)
  ELSE IF validator.ExitEra # MaxUint64 THEN Fail(s, ErrValidatorIsOut)
  ELSE IF validator.ActivationEra >= DeactivateCheckEra(c, op) THEN Fail(s, ErrNotActivatedValidator)
  ELSE
    LET v1 == updateValidatorVersionBySlot(c, validator)
        v2 == [v1 EXCEPT !.ExitTx = NoTx]
        v3 == [v2 EXCEPT !.ExitEra = ExitEraOf(c, op)]
        s1 == SetValidator(s, v3)
    IN IF IsForkSlotDelegate(c.Slot)
       THEN IF c.packFails THEN Fail(s1, ErrPackLogData)
            ELSE Ok(AddLog(s1, [Address |-> ValidatorsStateAddress, Evt |-> "Deactivate",
                                Creator |-> op.Creator, Index |-> op.Index]), op.Creator)
       ELSE Ok(s1, op.Creator)

\* applyDelegatingStakeRules, the split of op.Amount into profit and stake portions
DelegatingSplit(balance, amount) ==
  LET opBalance == balance + amount
      pb == opBalance - EffectiveBalance
      profitBalance == IF pb < 0 THEN 0 ELSE pb
      profitOpAmt0 == profitBalance - amount
  IN IF profitOpAmt0 <= 0
     THEN [profit |-> profitBalance, stake |-> amount - profitBalance]
     ELSE [profit |-> profitOpAmt0, stake |-> 0]

\* a variant that multiplies by the share before dividing
ShareAmount_MulFirst(portion, share) == (portion * share) \div 100

\* the credit of one role-holder for a portion: a percent of the portion, times the share
ShareAmount(portion, share) == (portion \div 100) * share

\* the keys of a share map in the order a range over the map visits them
\* (the order of a range over a Go map is not specified): those of `order`
\* that the map holds
RECURSIVE RangeKeys(_, _)
RangeKeys(shares, order) ==
  IF order = << >> THEN << >>
  ELSE (IF Head(order) \in DOMAIN shares THEN <<Head(order)>> ELSE << >>)
       \o RangeKeys(shares, Tail(order))

\* the entries one range over a share map appends to upBalInfo, in the order of the range
RangeShares(portion, shares, ruleType, isTrial, order) ==
  IF portion > 0
  THEN LET keys == RangeKeys(shares, order)
       IN [i \in 1..Len(keys) |->
             [Address |-> keys[i], RuleType |-> ruleType, IsTrial |-> isTrial,
              Amount |-> ShareAmount(portion, shares[keys[i]])]]
  ELSE << >>

\* the credits of the entries, each added when its entry is appended
RECURSIVE CreditEach(_, _)
CreditEach(s, entries) ==
  IF entries = << >> THEN s
  ELSE CreditEach(AddBalance(s, Head(entries).Address, Head(entries).Amount), Tail(entries))

applyDelegatingStakeRules(s, c, op, validator) ==
  IF ~IsForkSlotDelegate(c.Slot) THEN Fail(s, ErrDelegateForkRequire)
  ELSE
    LET isTrial == isValidatorTrialPeriod(c, validator)
        actualRules == ActualRules(c, validator)
        split == DelegatingSplit(op.Balance, op.Amount)
        upBalInfo == RangeShares(split.profit, actualRules.ProfitShare, "ProfitShare", isTrial,
                                 c.iter.profit)
                     \o RangeShares(split.stake, actualRules.StakeShare, "StakeShare", isTrial,
                                    c.iter.stake)
        s1 == CreditEach(s, upBalInfo)
    IN IF c.packFails THEN Fail(s1, ErrPackLogData)
       ELSE
         LET s2 == AddLog(s1, [Address |-> ValidatorsStateAddress, Evt |-> "UpdateBalance",
                               Creator |-> op.Creator, Index |-> op.Amount])
         IN Ok(AddLog(s2, [Address |-> ValidatorsStateAddress, Evt |-> "DelegatingStake",
                           Creator |-> op.Creator, Index |-> Len(upBalInfo),
                           Data |-> upBalInfo]), op.Creator)

\* validatorUpdateBalance, "ver1 data validation"
\* a variant that admits every operation whose initiating tx succeeded
UpdateBalanceCheck_NoInitSlotCheck(c, validator, op) ==
  IF Version(validator) < Ver1 THEN ErrNone
  ELSE IF validator.WithdrawalTx = NoTx
  THEN LET checkSlot == IF c.Slot > ValidatorOpExpireSlots THEN c.Slot - ValidatorOpExpireSlots ELSE 0
           rc == GetTransactionReceipt(c, op.InitTxHash)
       IN IF IsForkSlotValOpTracking(checkSlot) THEN ErrNoActiveWithdrawalOp
          ELSE IF rc.Status = NilStatus THEN "initTx receipt not found"
          ELSE IF rc.Status # ReceiptStatusSuccessful THEN "initTx receipt status is failed"
          ELSE ErrNone
  ELSE IF validator.WithdrawalTx # op.InitTxHash /\ OpNotExpired(c, validator.WithdrawalTx)
       THEN ErrValOpBlocked
  ELSE ErrNone

UpdateBalanceCheck(c, validator, op) ==
  IF Version(validator) < Ver1 THEN ErrNone
  ELSE IF validator.WithdrawalTx = NoTx
  THEN LET checkSlot == IF c.Slot > ValidatorOpExpireSlots THEN c.Slot - ValidatorOpExpireSlots ELSE 0
           rc == GetTransactionReceipt(c, op.InitTxHash)
       IN IF IsForkSlotValOpTracking(checkSlot) THEN ErrNoActiveWithdrawalOp
          ELSE IF rc.Status = NilStatus THEN "initTx receipt not found"
          ELSE IF rc.Status # ReceiptStatusSuccessful THEN "initTx receipt status is failed"
          ELSE IF IsForkSlotValOpTracking(GetHeaderByHash(c, rc.blHash).Slot)
               THEN ErrNoActiveWithdrawalOp
          ELSE ErrNone
  ELSE IF validator.WithdrawalTx # op.InitTxHash /\ OpNotExpired(c, validator.WithdrawalTx)
       THEN ErrValOpBlocked
  ELSE ErrNone

\* a variant of the refund that keeps the emptied ledger entry
UpdateBalanceRefund_KeepEntry(c, validator, iTxFrom, amount) ==
  IF IsForkSlotValOpTracking(c.Slot)
  THEN LET curDepositStake == StakeByAddress(validator, iTxFrom)
           wDepositAmt == IF curDepositStake < amount THEN curDepositStake ELSE amount
       IN SubtractStake(validator, iTxFrom, wDepositAmt)
  ELSE validator

\* validatorUpdateBalance, the refund taken from the ledger of the initiating sender
UpdateBalanceRefund(c, validator, iTxFrom, amount) ==
  IF IsForkSlotValOpTracking(c.Slot)
  THEN LET curDepositStake == StakeByAddress(validator, iTxFrom)
           wDepositAmt == IF curDepositStake < amount THEN curDepositStake ELSE amount
           v1 == SubtractStake(validator, iTxFrom, wDepositAmt)
       IN IF StakeByAddress(v1, iTxFrom) = 0 THEN RmStakeByAddress(v1, iTxFrom) ELSE v1
  ELSE validator

\* a variant that credits the validator's own address
UpdateBalanceFinish_CreditCreator(s, c, op, validator, withdrawalTo) ==
  LET s1 == SetValidator(s, validator)
      s2 == AddBalance(s1, validator.Address, op.Amount)
  IN IF IsForkSlotDelegate(c.Slot)
     THEN IF c.packFails THEN Fail(s2, ErrPackLogData)
          ELSE Ok(AddLog(s2, [Address |-> ValidatorsStateAddress, Evt |-> "UpdateBalance",
                              Creator |-> op.Creator, Index |-> op.Amount]), op.Creator)
     ELSE Ok(s2, op.Creator)

\* validatorUpdateBalance, the credit, the stored record and the log
UpdateBalanceFinish(s, c, op, validator, withdrawalTo) ==
  LET s1 == SetValidator(s, validator)
      s2 == AddBalance(s1, withdrawalTo, op.Amount)
  IN IF IsForkSlotDelegate(c.Slot)
     THEN IF c.packFails THEN Fail(s2, ErrPackLogData)
          ELSE Ok(AddLog(s2, [Address |-> ValidatorsStateAddress, Evt |-> "UpdateBalance",
                              Creator |-> op.Creator, Index |-> op.Amount]), op.Creator)
     ELSE Ok(s2, op.Creator)

validatorUpdateBalance(s, c, op) ==
  LET validator == GetValidator(s, op.Creator) IN
  IF validator = Nil THEN Fail(s, ErrUnknownValidator)
  ELSE IF UpdateBalanceCheck(c, validator, op) # ErrNone
       THEN Fail(s, UpdateBalanceCheck(c, validator, op))
  ELSE
    LET v1 == updateValidatorVersionBySlot(c, validator)
        v2 == [v1 EXCEPT !.WithdrawalTx = NoTx]
    IN IF IsInsufficientDeposit(v2)
       THEN LET initTx == GetTransaction(c, op.InitTxHash) IN
            IF initTx = Nil THEN Fail(s, ErrTxNF)
            ELSE IF initTx.kind # WithdrawalCode THEN Fail(s, ErrInvalidOpCode)
            ELSE IF IsForkSlotValOpTracking(c.Slot) /\ StakeByAddress(v2, initTx.from) = NilAmt
                 THEN Fail(s, PanicNilStake)
            ELSE UpdateBalanceFinish(s, c, op,
                   UpdateBalanceRefund(c, v2, initTx.from, op.Amount), initTx.from)
       ELSE IF HasDelegatingStake(v2) THEN applyDelegatingStakeRules(s, c, op, v2)
       ELSE UpdateBalanceFinish(s, c, op, v2, v2.WithdrawalAddress)

syncOpProcessing(s, c, op, txHash) ==
  LET ve == ValidateValidatorSyncOp(c, op, c.Slot, txHash) IN
  IF ve # ErrNone THEN Fail(s, ve)
  ELSE IF op.OpCode = ActivateCode THEN validatorActivate(s, c, op)
  ELSE IF op.OpCode = DeactivateCode THEN validatorDeactivate(s, c, op)
  ELSE IF op.OpCode = UpdateBalanceCode THEN validatorUpdateBalance(s, c, op)
  ELSE Ok(s, Nil)

\* ------------------------------------------------ Processor.Call
SetNonce(s, a, n) == [s EXCEPT !.nonces[a] = n]

\* Call, the dispatch on the decoded operation
Dispatch(s, c, caller, toAddr, value, op, txHash) ==
  IF op.OpCode = DepositCode THEN validatorDeposit(s, c, caller, toAddr, value, op, txHash)
  ELSE IF op.OpCode = ExitCode THEN validatorExit(s, c, caller, toAddr, op, txHash)
  ELSE IF op.OpCode = WithdrawalCode THEN validatorWithdrawal(s, c, caller, toAddr, op, txHash)
  ELSE syncOpProcessing(s, c, op, txHash)

\* a variant that returns the error without reverting to the snapshot
CallFinish_NoRevert(r, snapshot) == r

\* Call, "if err != nil { p.state.RevertToSnapshot(snapshot) }"
CallFinish(r, snapshot) == IF r.err # ErrNone THEN [r EXCEPT !.s = snapshot] ELSE r

\* a variant that takes the snapshot before it increments the nonce
Call_SnapshotFirst(s, c, caller, toAddr, value, op, txHash) ==
  IF op.OpCode = "undecodable" THEN Fail(s, ErrInvalidOpCode)
  ELSE
    LET snapshot == s
        s1 == SetNonce(s, caller, s.nonces[caller] + 1)
    IN CallFinish(Dispatch(s1, c, caller, toAddr, value, op, txHash), snapshot)

Call(s, c, caller, toAddr, value, op, txHash) ==
  IF op.OpCode = "undecodable" THEN Fail(s, ErrInvalidOpCode)
  ELSE
    LET s1 == SetNonce(s, caller, s.nonces[caller] + 1)
        snapshot == s1
    IN CallFinish(Dispatch(s1, c, caller, toAddr, value, op, txHash), snapshot)

\* ------------------------------------------------ inputs
OtherAddress == "other"
SyncTxHash == 200
Coordinator == "a3"

DepositOp(pk, creator, wa, dlg, sig) ==
  [OpCode |-> DepositCode, PubKey |-> pk, CreatorAddress |-> creator,
   WithdrawalAddress |-> wa, DelegatingStake |-> dlg, sigOk |-> sig]
ExitOp(pk, creator, e) ==
  [OpCode |-> ExitCode, PubKey |-> pk, CreatorAddress |-> creator, ExitAfterEpoch |-> e]
WithdrawalOp(creator, a) ==
  [OpCode |-> WithdrawalCode, CreatorAddress |-> creator, Amount |-> a]
SyncOp(code, creator, epoch, index, amount, balance, initTx) ==
  [OpCode |-> code, OpType |-> code, Creator |-> creator, ProcEpoch |-> epoch, Index |-> index,
   Amount |-> amount, Balance |-> balance, InitTxHash |-> initTx, Version |-> Ver1]
\* the coordinated record the chain holds for the op's InitTxHash: none, or the op's data
SavedOf(op) ==
  [OpType |-> op.OpType, ProcEpoch |-> op.ProcEpoch, Index |-> op.Index, Creator |-> op.Creator,
   Amount |-> op.Amount, InitTxHash |-> op.InitTxHash, TxHash |-> NoTx]

\* ------------------------------------------------ the Dag (dag/dag.go)
\* the workLoop goroutines StartWork may start, and the last slot of the slot ticker
MaxWorkers == 2
MaxDagSlot == 2
Workers == 1..MaxWorkers
ErrSynchronization == "synchronization"
NoPanic == "none"
\* dag.New: both channels made open and unbuffered, no goroutine started.
\*   sync: Downloader().Synchronising(); genesis: the genesis time is reached;
\*   tickerOn, tick: startTicker runs, a tick waits in startTicker.C;
\*   sw: the position of StartWork; wl, wslot, wsync: the position of each
\*   workLoop, the slot it processes, whether its call of work found the
\*   downloader synchronising; nslot: the next slot of its slot ticker;
\*   closes, started, received: the close calls per channel, the workLoop
\*   goroutines started, the errors received from errChan; staleTicks: the
\*   ticks StartWork took from startTicker.C after it stopped the ticker;
\*   blocks: the slots CreateBlock was called for, syncBlocks: those of them
\*   created by a call of work that found the downloader synchronising, while
\*   it still was; res: the result of the last handler
New ==
  [sync |-> FALSE, genesis |-> FALSE, tickerOn |-> FALSE, tick |-> FALSE,
   sw |-> "off",
   wl |-> [w \in Workers |-> "none"], wslot |-> [w \in Workers |-> 0],
   nslot |-> [w \in Workers |-> 0], wsync |-> [w \in Workers |-> FALSE],
   exitChan |-> "open", errChan |-> "open",
   closes |-> [exitChan |-> 0, errChan |-> 0], started |-> 0, received |-> 0,
   staleTicks |-> 0, panic |-> NoPanic, blocks |-> {}, syncBlocks |-> {}, res |-> Nil]

\* ------------------------------------------------ state machine
NoCall == [kind |-> "none"]
\* one block per slot: the block processed at slot s
BlockHashAt(s) == s + 1
Ctx(saved, packFails) ==
  [Slot |-> slot, Era |-> EraOfSlot(slot), BlockHash |-> BlockHashAt(slot), txs |-> txs,
   saved |-> saved, packFails |-> packFails]
\* the context of a call that ranges over share maps in the orders of iter
CtxIn(saved, packFails, iter) ==
  [Slot |-> slot, Era |-> EraOfSlot(slot), BlockHash |-> BlockHashAt(slot), txs |-> txs,
   saved |-> saved, packFails |-> packFails, iter |-> iter]
\* the orders a range over a map may take: every sequence of its keys
RangeOrders(keys) ==
  {o \in [1..Cardinality(keys) -> keys] : \A i, j \in 1..Cardinality(keys) : i # j => o[i] # o[j]}
\* one order for the range over the profit shares and one for the range over the
\* stake shares; only an UpdateBalance of a validator with delegating stake
\* ranges over them, over the maps of the rules in force
NoIter == [profit |-> << >>, stake |-> << >>]
Iterations(s, op) ==
  IF op.OpCode = UpdateBalanceCode /\ GetValidator(s, op.Creator) # Nil
     /\ HasDelegatingStake(GetValidator(s, op.Creator))
  THEN LET actualRules == ActualRules(Ctx(Nil, FALSE), GetValidator(s, op.Creator))
       IN {[profit |-> p, stake |-> q] : p \in RangeOrders(DOMAIN actualRules.ProfitShare),
                                         q \in RangeOrders(DOMAIN actualRules.StakeShare)}
  ELSE {NoIter}
RECURSIVE SumNonces(_, _)
SumNonces(n, S) ==
  IF S = {} THEN 0 ELSE LET a == CHOOSE x \in S : TRUE IN n[a] + SumNonces(n, S \ {a})
Idle == last.kind = "none" /\ SumNonces(st.nonces, Addr) < MaxCalls

InitWith(forkSlotDelegate) ==
  /\ st = [validators |-> [a \in Addr |-> Nil], balances |-> [a \in Addr |-> InitBalance],
           nonces |-> [a \in Addr |-> 0], depositCount |-> 0, logs |-> << >>,
           valList |-> [i \in {} |-> "a1"]]
  /\ slot = 0
  /\ txs = << >>
  /\ pre = st
  /\ last = NoCall
  /\ conf = [ForkSlotDelegate |-> forkSlotDelegate]
  /\ dag = New
Init == InitWith(ForkSlotDelegate)

Record(kind, r, from, toAddr, value, op, c, txHash) ==
  [kind |-> kind, err |-> r.err, from |-> from, toAddr |-> toAddr, value |-> value, op |-> op,
   tx |-> txHash, saved |-> c.saved, packFails |-> c.packFails, iter |-> c.iter]

\* one transaction addressed to the processor: Processor.Call on the decoded message
CallStep(kind, from, toAddr, value, op, saved, packFails, txHash) ==
  \E iter \in Iterations(st, op) :
    LET c == CtxIn(saved, packFails, iter)
        r == Call(st, c, from, toAddr, value, op, txHash)
    IN /\ st' = r.s
       /\ last' = Record(kind, r, from, toAddr, value, op, c, txHash)
       /\ pre' = st
       /\ UNCHANGED <<slot, txs, conf, dag>>

\* Each step draws one input of the handler from the set it is given:
\* [from, to, value, op] for the requests, [op, matching, packFails] for a sync op.
DepositStep(Inputs) ==
  /\ Idle /\ Len(txs) < MaxTx
  /\ \E i \in Inputs :
       CallStep("Deposit", i.from, i.to, i.value, i.op, Nil, FALSE, Len(txs) + 1)

ExitStep(Inputs) ==
  /\ Idle /\ Len(txs) < MaxTx
  /\ \E i \in Inputs :
       CallStep("Exit", i.from, i.to, 0, i.op, Nil, FALSE, Len(txs) + 1)

WithdrawalStep(Inputs) ==
  /\ Idle /\ Len(txs) < MaxTx
  /\ \E i \in Inputs :
       CallStep("Withdrawal", i.from, i.to, 0, i.op, Nil, FALSE, Len(txs) + 1)

\* matching: whether the chain holds the coordinated record of the op;
\* packFails: whether the encoding of the log data fails
SyncStep(Inputs) ==
  /\ Idle
  /\ \E i \in Inputs :
       CallStep("Sync", Coordinator, ValidatorsStateAddress, 0, i.op,
                IF i.matching THEN SavedOf(i.op) ELSE Nil, i.packFails, SyncTxHash)

\* the block processor records a successful request and the receipt the chain answers for it
TxRecord(rc) ==
  [kind |-> last.op.OpCode, from |-> last.from, creator |-> last.op.CreatorAddress,
   amount |-> IF last.kind = "Withdrawal" THEN last.op.Amount ELSE last.value,
   exitAfterEpoch |-> IF last.kind = "Exit" THEN last.op.ExitAfterEpoch ELSE NilAmt,
   bl |-> BlockHashAt(slot), slot |-> slot, rc |-> rc]

EndTxStep(Receipts) ==
  /\ last.kind # "none"
  /\ IF last.err = ErrNone /\ last.kind # "Sync"
     THEN \E rc \in (IF last.kind = "Deposit" THEN {"ok"} ELSE Receipts) :
            txs' = Append(txs, TxRecord(rc))
     ELSE txs' = txs
  /\ last' = NoCall
  /\ pre' = st
  /\ UNCHANGED <<st, slot, conf, dag>>

NextBlockStep(Slots) ==
  /\ last.kind = "none"
  /\ \E s \in Slots : s > slot /\ s <= MaxSlot /\ slot' = s
  /\ UNCHANGED <<st, txs, pre, last, conf, dag>>

\* ------------------------------------------------ withdrawal requests
PlainDeposit == DepositOp("pk1", "a1", "a3", Nil, TRUE)
DelegatingDeposit == DepositOp("pk2", "a2", "a3", Dlg1, TRUE)
Req(from, to, value, op) == [from |-> from, to |-> to, value |-> value, op |-> op]

W_Deposits ==
  { Req(f, ValidatorsStateAddress, v, op) :
      f \in {"a1", "a2"}, v \in {MinDepositVal, EffectiveBalance},
      op \in {PlainDeposit, DelegatingDeposit} }
W_Withdrawals ==
  { Req(f, ValidatorsStateAddress, 0, WithdrawalOp(cr, a)) :
      f \in Addr, cr \in Creators, a \in {5, MaxCastable + 1} }
  \cup { Req("a1", OtherAddress, 0, WithdrawalOp("a1", 5)) }
W_Deposit == DepositStep(W_Deposits)
W_Withdrawal == WithdrawalStep(W_Withdrawals)
W_EndTx == EndTxStep({"ok", "failed", "none"})
W_NextBlock == NextBlockStep(1..3)
NextW == W_Deposit \/ W_Withdrawal \/ W_EndTx \/ W_NextBlock
SpecW == Init /\ [][NextW]_vars

\* C2: for a record at Ver1 with a pending withdrawal tx, a Withdrawal request is rejected
\* (with ErrValOpBlocked when it is addressed to the validators-state address with a
\* representable amount) and leaves the record as it was when the chain reports the pending
\* tx in the block being processed, or reports its receipt successful and
\* slot < slot of its block + ValidatorOpExpireSlots; otherwise (the window has elapsed or
\* the receipt is not successful) a request from an authorized sender succeeds and its tx
\* hash becomes the pending withdrawal tx.
LastCreator == last.op.CreatorAddress
PreVal == pre.validators[LastCreator]
PostVal == st.validators[LastCreator]
WellAddressed == last.toAddr = ValidatorsStateAddress
PendingW ==
  /\ last.kind = "Withdrawal"
  /\ PreVal # Nil
  /\ PreVal.Ver = Ver1
  /\ PreVal.WithdrawalTx # NoTx
ReportedInBlock(h) == txs[h].rc # "none" /\ txs[h].bl = BlockHashAt(slot)
ReportedSuccessful(h) == txs[h].rc = "ok"
InWindow(h) == ReportedSuccessful(h) /\ slot < txs[h].slot + ValidatorOpExpireSlots
WithdrawalAuthorized ==
  /\ WellAddressed
  /\ last.op.Amount <= MaxCastable
  /\ IF PreVal.ActivationEra = MaxUint64 /\ TotalStake(PreVal) < EffectiveBalance
     THEN /\ last.from \in DOMAIN PreVal.Stake
          /\ PreVal.Stake[last.from] > 0
          /\ last.op.Amount <= PreVal.Stake[last.from]
     ELSE IF PreVal.DelegatingStake # Nil
     THEN InList(last.from, ActualRules(Ctx(Nil, FALSE), PreVal).Withdrawal)
     ELSE last.from = PreVal.WithdrawalAddress
C2_WithdrawalExclusive ==
  PendingW =>
    LET h == PreVal.WithdrawalTx IN
    IF ReportedInBlock(h) \/ InWindow(h)
    THEN /\ last.err # ErrNone
         /\ (WellAddressed /\ last.op.Amount <= MaxCastable => last.err = ErrValOpBlocked)
         /\ PostVal = PreVal
    ELSE WithdrawalAuthorized => last.err = ErrNone /\ PostVal.WithdrawalTx = last.tx
C2_Witness ==
  /\ PendingW
  /\ ReportedSuccessful(PreVal.WithdrawalTx)
  /\ slot >= txs[PreVal.WithdrawalTx].slot + ValidatorOpExpireSlots
  /\ last.err = ErrNone
  /\ PostVal.WithdrawalTx = last.tx
C2_BlockedReached == PendingW /\ last.err = ErrValOpBlocked

\* C4: a Deposit for an existing record at Ver1 whose pending withdrawal tx the chain reports
\* in the block being processed, or successful with slot < slot of its block +
\* ValidatorOpExpireSlots, is rejected (with ErrValOpBlocked when it passes the checks made
\* before: address, signature, value, funds, delegating data, compliance with the record),
\* and the stake ledger, the deposit-tx set, the deposit counter and the sender's balance
\* are unchanged.
DepositOnPendingW ==
  /\ last.kind = "Deposit"
  /\ PreVal # Nil
  /\ PreVal.Ver = Ver1
  /\ PreVal.WithdrawalTx # NoTx
  /\ (ReportedInBlock(PreVal.WithdrawalTx) \/ InWindow(PreVal.WithdrawalTx))
DepositPassesEarlierChecks ==
  /\ WellAddressed
  /\ last.op.sigOk
  /\ last.value >= MinDepositVal /\ last.value <= MaxCastable
  /\ pre.balances[last.from] >= last.value
  /\ (last.op.DelegatingStake # Nil =>
        slot >= ForkSlotDelegate /\ RulesValidate(last.op.DelegatingStake.Rules) = ErrNone)
  /\ PreVal.ActivationEra = MaxUint64
  /\ PreVal.PubKey = last.op.PubKey
  /\ PreVal.WithdrawalAddress = last.op.WithdrawalAddress
  /\ PreVal.DelegatingStake = last.op.DelegatingStake
C4_DepositBlockedByWithdrawal ==
  DepositOnPendingW =>
    /\ last.err # ErrNone
    /\ (DepositPassesEarlierChecks => last.err = ErrValOpBlocked)
    /\ PostVal.Stake = PreVal.Stake
    /\ PostVal.DepositTxs = PreVal.DepositTxs
    /\ st.depositCount = pre.depositCount
    /\ st.balances[last.from] = pre.balances[last.from]
C4_Witness ==
  /\ DepositOnPendingW
  /\ ~ReportedInBlock(PreVal.WithdrawalTx)
  /\ DepositPassesEarlierChecks
  /\ last.err = ErrValOpBlocked
C4_SameBlockReached ==
  DepositOnPendingW /\ ReportedInBlock(PreVal.WithdrawalTx) /\ last.err = ErrValOpBlocked

\* C7: a successful Deposit of value v from sender s to creator c debits s's balance by v,
\* raises s's entry of c's stake ledger by v (creating the record or the entry if absent)
\* leaving the other entries as they were, adds the tx hash to c's deposit-tx set and
\* increments the deposit counter by 1; and between transactions, a record that is not
\* activated and for which no withdrawal was accepted has one ledger entry per distinct
\* depositor and a ledger total equal to the sum of the deposited values.
PreStake == IF PreVal = Nil THEN EmptyStake ELSE PreVal.Stake
PreDepositTxs == IF PreVal = Nil THEN {} ELSE PreVal.DepositTxs
DepositSucceeded == last.kind = "Deposit" /\ last.err = ErrNone
DepositsTo(c) == { h \in 1..Len(txs) : txs[h].kind = DepositCode /\ txs[h].creator = c }
WithdrawalsFor(c) == { h \in 1..Len(txs) : txs[h].kind = WithdrawalCode /\ txs[h].creator = c }
RECURSIVE SumAmounts(_)
SumAmounts(H) ==
  IF H = {} THEN 0 ELSE LET h == CHOOSE x \in H : TRUE IN txs[h].amount + SumAmounts(H \ {h})
C7_DepositEffects ==
  DepositSucceeded =>
    /\ st.balances[last.from] = pre.balances[last.from] - last.value
    /\ DOMAIN PostVal.Stake = DOMAIN PreStake \cup {last.from}
    /\ PostVal.Stake[last.from] =
         (IF last.from \in DOMAIN PreStake THEN PreStake[last.from] ELSE 0) + last.value
    /\ \A a \in DOMAIN PreStake \ {last.from} : PostVal.Stake[a] = PreStake[a]
    /\ PostVal.DepositTxs = PreDepositTxs \cup {last.tx}
    /\ st.depositCount = pre.depositCount + 1
C7_LedgerSum ==
  last.kind = "none" =>
    \A c \in Creators :
      LET v == st.validators[c] IN
      (v # Nil /\ v.ActivationEra = MaxUint64 /\ WithdrawalsFor(c) = {}) =>
        /\ DOMAIN v.Stake = { txs[h].from : h \in DepositsTo(c) }
        /\ TotalStake(v) = SumAmounts(DepositsTo(c))
C7_DepositAccumulates == C7_DepositEffects /\ C7_LedgerSum
C7_Witness ==
  /\ DepositSucceeded
  /\ PreVal # Nil
  /\ last.from \notin DOMAIN PreStake
  /\ Cardinality(DOMAIN PostVal.Stake) = 2
  /\ TotalStake(PostVal) = TotalStake(PreVal) + last.value
C7_TopUpReached == DepositSucceeded /\ PreVal # Nil /\ last.from \in DOMAIN PreStake
C7_TwoDepositorsSettled ==
  /\ last.kind = "none"
  /\ \E c \in Creators :
       /\ st.validators[c] # Nil
       /\ WithdrawalsFor(c) = {}
       /\ Cardinality({ txs[h].from : h \in DepositsTo(c) }) = 2

\* ------------------------------------------------ deposits
D_Ops ==
  { DepositOp(pk, "a1", wa, dlg, TRUE) :
      pk \in PubKeys, wa \in {"a3", "a2"}, dlg \in {Nil, Dlg1, Dlg2} }
  \cup { DepositOp("pk1", "a1", "a3", Nil, FALSE), DepositOp("pk1", "a1", "a3", DlgBad, TRUE) }
D_Values == {NilAmt, MinDepositVal - 1, MinDepositVal, InitBalance + 1, MaxCastable + 1}
D_Deposits ==
  { Req(f, ValidatorsStateAddress, v, op) : f \in {"a1", "a2"}, v \in D_Values, op \in D_Ops }
  \cup { Req("a1", OtherAddress, MinDepositVal, PlainDeposit) }
D_Deposit == DepositStep(D_Deposits)
D_EndTx == EndTxStep({"ok"})
D_NextBlock == NextBlockStep(1..2)
NextD == D_Deposit \/ D_EndTx \/ D_NextBlock
SpecD == Init /\ [][NextD]_vars

\* C6: a Deposit for a creator that has a record is rejected when the op's public key,
\* withdrawal address or delegating data (compared by marshaled bytes, absent against
\* present included) differs from the record; the record, the sender's balance and the
\* deposit counter are then as before. ValidatePartialDepositOp rejects the same ops.
DepositMismatch ==
  /\ last.kind = "Deposit"
  /\ PreVal # Nil
  /\ \/ last.op.PubKey # PreVal.PubKey
     \/ last.op.WithdrawalAddress # PreVal.WithdrawalAddress
     \/ DlgMarshalBinary(last.op.DelegatingStake) # DlgMarshalBinary(PreVal.DelegatingStake)
C6_MismatchRejected ==
  DepositMismatch =>
    /\ last.err # ErrNone
    /\ ValidatePartialDepositOp(PreVal, last.op) # ErrNone
    /\ PostVal = PreVal
    /\ st.balances[last.from] = pre.balances[last.from]
    /\ st.depositCount = pre.depositCount
C6_Witness ==
  /\ DepositMismatch
  /\ last.op.PubKey = PreVal.PubKey
  /\ last.op.WithdrawalAddress = PreVal.WithdrawalAddress
  /\ PreVal.DelegatingStake = Nil
  /\ last.err = ErrMismatchDelegateData
C6_PubKeyReached == DepositMismatch /\ last.err = ErrDepositPubKey
C6_WithdrawalAddressReached == DepositMismatch /\ last.err = ErrDepositWithdrawalAddress
C6_RulesReached ==
  /\ DepositMismatch /\ PreVal.DelegatingStake # Nil /\ last.op.DelegatingStake # Nil
  /\ last.err = ErrMismatchDelegateData
\* the byte form separates the delegating data the requests carry
C6_BytesSeparate ==
  \A d1, d2 \in {Nil, Dlg1, Dlg2} : d1 # d2 => DlgMarshalBinary(d1) # DlgMarshalBinary(d2)

\* C8: a Deposit whose value is nil or below MinDepositVal fails, with ErrTooLowDepositValue
\* when address and signature are in order; a Deposit whose value exceeds the sender's
\* balance fails, with ErrInsufficientFundsForOp when address, signature and value (at
\* least MinDepositVal, representable in gwei) are in order; in both cases the balances, the
\* deposit counter and every validator record are as before, so no record is created.
DepositTooLow == last.kind = "Deposit" /\ (last.value = NilAmt \/ last.value < MinDepositVal)
DepositOverBalance == last.kind = "Deposit" /\ last.value > pre.balances[last.from]
DepositLeftNoTrace ==
  /\ st.balances = pre.balances
  /\ st.depositCount = pre.depositCount
  /\ st.validators = pre.validators
C8_DepositValueChecks ==
  /\ DepositTooLow =>
       /\ last.err # ErrNone
       /\ (WellAddressed /\ last.op.sigOk => last.err = ErrTooLowDepositValue)
       /\ DepositLeftNoTrace
  /\ DepositOverBalance =>
       /\ last.err # ErrNone
       /\ (WellAddressed /\ last.op.sigOk /\ last.value >= MinDepositVal
             /\ last.value <= MaxCastable => last.err = ErrInsufficientFundsForOp)
       /\ DepositLeftNoTrace
C8_Witness ==
  /\ DepositOverBalance
  /\ last.err = ErrInsufficientFundsForOp
  /\ PreVal = Nil /\ PostVal = Nil
C8_TooLowReached == DepositTooLow /\ last.value = MinDepositVal - 1 /\ last.err = ErrTooLowDepositValue
C8_NilValueReached == DepositTooLow /\ last.value = NilAmt /\ last.err = ErrTooLowDepositValue

\* ------------------------------------------------ exit requests
SyncIn(op, matching, packFails) == [op |-> op, matching |-> matching, packFails |-> packFails]
E_Deposits ==
  { Req("a1", ValidatorsStateAddress, EffectiveBalance, PlainDeposit),
    Req("a2", ValidatorsStateAddress, EffectiveBalance, DelegatingDeposit) }
E_Syncs ==
  { SyncIn(SyncOp(ActivateCode, cr, 0, 0, NilAmt, NilAmt, 1), TRUE, FALSE) : cr \in Creators }
E_Exits ==
  { Req(f, ValidatorsStateAddress, 0, ExitOp(pk, cr, NilAmt)) :
      f \in Addr, pk \in PubKeys, cr \in Creators }
  \cup { Req("a3", OtherAddress, 0, ExitOp("pk1", "a1", NilAmt)) }
E_Deposit == DepositStep(E_Deposits)
E_Sync == SyncStep(E_Syncs)
E_Exit == ExitStep(E_Exits)
E_EndTx == EndTxStep({"ok", "failed", "none"})
E_NextBlock == NextBlockStep({1, 4, 5, 6, 7})
NextE == E_Deposit \/ E_Sync \/ E_Exit \/ E_EndTx \/ E_NextBlock
SpecE == Init /\ [][NextE]_vars

\* C3: for a record at Ver1 with a pending exit tx, an Exit request is rejected (with
\* ErrValOpBlocked when it is a well-formed request of an authorized sender) and leaves the
\* record as it was when the chain reports the pending tx in the block being processed, or
\* reports its receipt successful and slot < slot of its block + ValidatorOpExpireSlots;
\* otherwise (the window has elapsed or the receipt is not successful) a request from an
\* authorized sender succeeds and its tx hash becomes the pending exit tx.
PendingE ==
  /\ last.kind = "Exit"
  /\ PreVal # Nil
  /\ PreVal.Ver = Ver1
  /\ PreVal.ExitTx # NoTx
ExitAuthorized ==
  /\ WellAddressed
  /\ last.op.PubKey = PreVal.PubKey
  /\ PreVal.ActivationEra <= EraOfSlot(slot)
  /\ PreVal.ExitEra = MaxUint64
  /\ IF PreVal.DelegatingStake # Nil
     THEN InList(last.from, ActualRules(Ctx(Nil, FALSE), PreVal).Exit)
     ELSE last.from = PreVal.WithdrawalAddress
C3_ExitExclusive ==
  PendingE =>
    LET h == PreVal.ExitTx IN
    IF ReportedInBlock(h) \/ InWindow(h)
    THEN /\ last.err # ErrNone
         /\ (ExitAuthorized => last.err = ErrValOpBlocked)
         /\ PostVal = PreVal
    ELSE ExitAuthorized => last.err = ErrNone /\ PostVal.ExitTx = last.tx
C3_Witness ==
  /\ PendingE
  /\ ReportedSuccessful(PreVal.ExitTx)
  /\ slot >= txs[PreVal.ExitTx].slot + ValidatorOpExpireSlots
  /\ last.err = ErrNone
  /\ PostVal.ExitTx = last.tx
C3_BlockedReached == PendingE /\ InWindow(PreVal.ExitTx) /\ last.err = ErrValOpBlocked
C3_SameBlockReached ==
  PendingE /\ ReportedInBlock(PreVal.ExitTx) /\ last.err = ErrValOpBlocked
C3_FailedPriorReached ==
  /\ PendingE /\ txs[PreVal.ExitTx].rc = "failed" /\ ~ReportedInBlock(PreVal.ExitTx)
  /\ slot < txs[PreVal.ExitTx].slot + ValidatorOpExpireSlots
  /\ last.err = ErrNone
C3_DelegatedReached == PendingE /\ PreVal.DelegatingStake # Nil /\ last.err = ErrNone

\* ------------------------------------------------ activation and deactivation
S_Deposits == { Req("a1", ValidatorsStateAddress, EffectiveBalance, PlainDeposit) }
S_Exits == { Req("a3", ValidatorsStateAddress, 0, ExitOp("pk1", "a1", NilAmt)) }
S_Ops ==
  { SyncOp(ActivateCode, "a1", e, i, NilAmt, NilAmt, 1) : e \in {0, 2}, i \in {0, 1} }
  \cup { SyncOp(DeactivateCode, "a1", e, 0, NilAmt, NilAmt, h) :
           e \in {0, 6, 8}, h \in {2, SlashHash("a1")} }
S_Syncs == { SyncIn(op, m, pf) : op \in S_Ops, m \in BOOLEAN, pf \in BOOLEAN }
S_Deposit == DepositStep(S_Deposits)
S_Exit == ExitStep(S_Exits)
S_Sync == SyncStep(S_Syncs)
S_EndTx == EndTxStep({"ok", "failed"})
S_NextBlock == NextBlockStep({1, 4, 6, 7, 8})
NextS == S_Deposit \/ S_Exit \/ S_Sync \/ S_EndTx \/ S_NextBlock
SpecS == Init /\ [][NextS]_vars

SyncCreator == last.op.Creator
SyncPreVal == pre.validators[SyncCreator]
SyncPostVal == st.validators[SyncCreator]
ActivateSucceeded ==
  last.kind = "Sync" /\ last.op.OpCode = ActivateCode /\ last.err = ErrNone
DeactivateSucceeded ==
  last.kind = "Sync" /\ last.op.OpCode = DeactivateCode /\ last.err = ErrNone
ProcEra == EpochToEra(last.op.ProcEpoch).Number
CurrentEra == EraOfSlot(slot)
ActivateOtherEffects ==
  /\ SyncPostVal.Index = last.op.Index
  /\ SyncPostVal.Stake = EmptyStake
  /\ SyncPostVal.DepositTxs = {}
  /\ last.op.Index \in DOMAIN st.valList
  /\ st.valList[last.op.Index] = SyncCreator

\* C9 (as amended): a successful Activate sets ActivationEra to the number of the era that
\* holds the op's ProcEpoch plus 2, sets Index to the op's index, empties the stake ledger
\* and the deposit-tx set, and registers the creator in the validator list at that index.
C9_ActivateEffects ==
  ActivateSucceeded => SyncPostVal.ActivationEra = ProcEra + postpone /\ ActivateOtherEffects
\* C9 (as stated): a successful Activate sets ActivationEra to the current era number plus 2,
\* with the same other effects.
C9_AsStated ==
  ActivateSucceeded => SyncPostVal.ActivationEra = CurrentEra + postpone /\ ActivateOtherEffects
C9_Witness ==
  /\ ActivateSucceeded
  /\ ProcEra # CurrentEra
  /\ SyncPreVal.Stake # EmptyStake
  /\ SyncPreVal.DepositTxs # {}
  /\ SyncPostVal.ActivationEra = ProcEra + postpone
C9_SameEraReached == ActivateSucceeded /\ ProcEra = CurrentEra

\* C10 (as stated): a successful Deactivate sets ExitEra to the effective era number plus 2
\* and clears the pending exit tx, the effective era being the one the activation check
\* uses: the era of the op's ProcEpoch before the sync-processing fork, the era of the block
\* context from that fork on.
EffectiveEra == IF slot >= ForkSlotValSyncProc THEN CurrentEra ELSE ProcEra
C10_AsStated ==
  DeactivateSucceeded =>
    /\ SyncPostVal.ExitEra = EffectiveEra + postpone
    /\ SyncPostVal.ExitTx = NoTx
\* C10 (what the handler does): ExitEra is the era of the op's ProcEpoch plus 2 on both
\* sides of the fork, and the pending exit tx is cleared.
C10_DeactivateEffects ==
  DeactivateSucceeded =>
    /\ SyncPostVal.ExitEra = ProcEra + postpone
    /\ SyncPostVal.ExitTx = NoTx
C10_Witness ==
  /\ DeactivateSucceeded
  /\ slot >= ForkSlotValSyncProc
  /\ ProcEra # CurrentEra
  /\ SyncPreVal.ExitTx # NoTx
  /\ SyncPostVal.ExitEra # CurrentEra + postpone
C10_PreForkReached ==
  DeactivateSucceeded /\ slot < ForkSlotValSyncProc /\ SyncPreVal.ExitTx # NoTx

\* ------------------------------------------------ all operations
MismatchingDeposit == DepositOp("pk2", "a1", "a2", Dlg1, TRUE)
A_Deposits ==
  { Req(f, ValidatorsStateAddress, v, op) :
      f \in {"a1", "a2"}, v \in {MinDepositVal, EffectiveBalance},
      op \in {PlainDeposit, MismatchingDeposit, DelegatingDeposit} }
A_Exits ==
  { Req("a3", ValidatorsStateAddress, 0, ExitOp("pk1", "a1", NilAmt)),
    Req("a3", ValidatorsStateAddress, 0, ExitOp("pk2", "a2", NilAmt)) }
A_Withdrawals ==
  { Req(f, ValidatorsStateAddress, 0, WithdrawalOp(cr, 5)) : f \in {"a1", "a3"}, cr \in Creators }
A_Ops ==
  { SyncOp(ActivateCode, cr, 0, 0, NilAmt, NilAmt, 1) : cr \in Creators }
  \cup { SyncOp(DeactivateCode, cr, 6, 0, NilAmt, NilAmt, SlashHash(cr)) : cr \in Creators }
  \cup { SyncOp(UpdateBalanceCode, cr, 0, 0, 5, InitBalance, h) : cr \in Creators, h \in {2, 3} }
A_Syncs ==
  { SyncIn(op, TRUE, pf) : op \in A_Ops, pf \in BOOLEAN }
  \cup { SyncIn(SyncOp(ActivateCode, "a1", 0, 0, NilAmt, NilAmt, 1), FALSE, FALSE) }
Deposit == DepositStep(A_Deposits)
Exit == ExitStep(A_Exits)
Withdrawal == WithdrawalStep(A_Withdrawals)
ValidatorSync == SyncStep(A_Syncs)
EndTx == EndTxStep({"ok", "failed"})
NextBlock == NextBlockStep({1, 4, 6})
Next == Deposit \/ Exit \/ Withdrawal \/ ValidatorSync \/ EndTx \/ NextBlock
Spec == Init /\ [][Next]_vars

\* C1: whenever Processor.Call returns an error for a Deposit, Exit, Withdrawal or
\* ValidatorSync operation, the validator records with their stake ledgers, the validator
\* list, the account balances, the deposit counter and the emitted logs are exactly as they
\* were before the call. A call that ends in a panic returns no error and is left out.
CallFailed == last.kind # "none" /\ last.err # ErrNone /\ last.err # PanicNilStake
C1_FailedCallLeavesNoTrace ==
  CallFailed =>
    /\ st.validators = pre.validators
    /\ st.valList = pre.valList
    /\ st.balances = pre.balances
    /\ st.depositCount = pre.depositCount
    /\ st.logs = pre.logs
C1_Witness ==
  /\ CallFailed
  /\ last.kind = "Sync"
  /\ last.op.OpCode = UpdateBalanceCode
  /\ last.err = ErrPackLogData
  /\ st.balances = pre.balances
C1_DepositFailureReached == CallFailed /\ last.kind = "Deposit"
C1_ExitFailureReached == CallFailed /\ last.kind = "Exit"
C1_WithdrawalFailureReached == CallFailed /\ last.kind = "Withdrawal"
C1_ActivateFailureReached ==
  CallFailed /\ last.kind = "Sync" /\ last.op.OpCode = ActivateCode /\ last.err = ErrPackLogData

\* C5: PubKey, creator Address, WithdrawalAddress and DelegatingStake (presence, Rules,
\* TrialPeriod, TrialRules) of a validator record are the same after every Deposit, Exit,
\* Withdrawal, Activate, Deactivate and UpdateBalance as before it, and the record stays.
Identity(v) ==
  [PubKey |-> v.PubKey, Address |-> v.Address, WithdrawalAddress |-> v.WithdrawalAddress,
   DelegatingStake |-> v.DelegatingStake]
C5_IdentityImmutable ==
  \A a \in Addr :
    pre.validators[a] # Nil =>
      /\ st.validators[a] # Nil
      /\ Identity(st.validators[a]) = Identity(pre.validators[a])
      /\ st.validators[a].Address = a
C5_Witness ==
  /\ last.kind = "Deposit"
  /\ PreVal # Nil
  /\ last.op.PubKey # PreVal.PubKey
  /\ last.from # LastCreator
  /\ st.validators[last.from] = Nil
  /\ Identity(PostVal) = Identity(PreVal)
C5_ChangedBySync ==
  /\ last.kind = "Sync" /\ last.err = ErrNone
  /\ SyncPreVal # Nil /\ SyncPostVal # SyncPreVal
  /\ SyncPreVal.DelegatingStake # Nil
\* ------------------------------------------------ lifecycle
RecordStays(a) == pre.validators[a] # Nil => st.validators[a] # Nil
ExitEraKept(a) ==
  (pre.validators[a] # Nil /\ pre.validators[a].ExitEra # MaxUint64) =>
    st.validators[a].ExitEra = pre.validators[a].ExitEra
ExitedOnlyIfActivated(a) ==
  (st.validators[a] # Nil /\ st.validators[a].ExitEra # MaxUint64) =>
    st.validators[a].ActivationEra # MaxUint64
ActivationEraKept(a) ==
  (pre.validators[a] # Nil /\ pre.validators[a].ActivationEra # MaxUint64) =>
    st.validators[a].ActivationEra = pre.validators[a].ActivationEra

\* C11 (as amended): no operation removes a record; no operation changes an ExitEra that
\* differs from the sentinel; ExitEra differs from the sentinel only if ActivationEra does;
\* and no operation processed at a slot of the op-tracking fork changes an ActivationEra
\* that differs from the sentinel.
C11_LifecycleForward ==
  \A a \in Addr :
    /\ RecordStays(a)
    /\ ExitEraKept(a)
    /\ ExitedOnlyIfActivated(a)
    /\ (IsForkSlotValOpTracking(slot) => ActivationEraKept(a))
\* C11 (as stated): the same with ActivationEra never changed at any slot.
C11_AsStated ==
  \A a \in Addr :
    RecordStays(a) /\ ExitEraKept(a) /\ ExitedOnlyIfActivated(a) /\ ActivationEraKept(a)
C11_Witness ==
  /\ last.kind = "Sync" /\ last.op.OpCode = ActivateCode
  /\ IsForkSlotValOpTracking(slot)
  /\ SyncPreVal # Nil /\ SyncPreVal.ActivationEra # MaxUint64
  /\ last.op.ProcEpoch \div EpochsPerEra + postpone # SyncPreVal.ActivationEra
  /\ last.err = ErrValidatorActivated
  /\ SyncPostVal = SyncPreVal
C11_ExitedReached ==
  \E a \in Addr : st.validators[a] # Nil /\ st.validators[a].ExitEra # MaxUint64
C11_DeactivateTwiceReached ==
  /\ last.kind = "Sync" /\ last.op.OpCode = DeactivateCode
  /\ SyncPreVal # Nil /\ SyncPreVal.ExitEra # MaxUint64 /\ last.err = ErrValidatorIsOut

\* ------------------------------------------------ balance updates
\* One plain validator (a1, two depositors) and one delegating validator (a2);
\* withdrawal requests and the UpdateBalance operations that resolve them.
U_Deposits ==
  { Req("a1", ValidatorsStateAddress, MinDepositVal, PlainDeposit),
    Req("a2", ValidatorsStateAddress, MinDepositVal, PlainDeposit),
    Req("a2", ValidatorsStateAddress, EffectiveBalance, DelegatingDeposit) }
U_Withdrawals ==
  { Req("a1", ValidatorsStateAddress, 0, WithdrawalOp("a1", a)) : a \in {0, 5, MinDepositVal} }
  \cup { Req(f, ValidatorsStateAddress, 0, WithdrawalOp(cr, 5)) :
           f \in {"a2", "a3"}, cr \in Creators }
\* <<op.Balance, op.Amount>> of the UpdateBalance operations
U_Amounts ==
  { <<0, 5>>, <<0, MinDepositVal>>, <<0, MinDepositVal + 50>>,
    <<EffectiveBalance, 100>>, <<EffectiveBalance, 101>>, <<EffectiveBalance - 100, 200>>,
    <<EffectiveBalance + 200, 100>> }
U_Ops ==
  { SyncOp(UpdateBalanceCode, cr, 0, 0, ba[2], ba[1], h) :
      cr \in Creators, ba \in U_Amounts, h \in 1..MaxTx }
  \cup { SyncOp(UpdateBalanceCode, cr, 0, 0, 5, 0, SlashHash(cr)) : cr \in Creators }
  \cup { SyncOp(ActivateCode, "a2", 0, 0, NilAmt, NilAmt, h) : h \in 1..2 }
U_Syncs == { SyncIn(op, TRUE, FALSE) : op \in U_Ops }
U_Deposit == DepositStep(U_Deposits)
U_Withdrawal == WithdrawalStep(U_Withdrawals)
U_Sync == SyncStep(U_Syncs)
U_EndTx == EndTxStep({"ok"})
U_NextBlock == NextBlockStep({1, 2, 7})
NextU == U_Deposit \/ U_Withdrawal \/ U_Sync \/ U_EndTx \/ U_NextBlock
SpecU == Init /\ [][NextU]_vars

UpdateBalanceSucceeded ==
  last.kind = "Sync" /\ last.op.OpCode = UpdateBalanceCode /\ last.err = ErrNone
WithdrawalSucceeded == last.kind = "Withdrawal" /\ last.err = ErrNone
\* the path a successful UpdateBalance took, decided on the record it found
OnRefundPath == UpdateBalanceSucceeded /\ IsInsufficientDeposit(SyncPreVal)
OnDelegatingPath ==
  UpdateBalanceSucceeded /\ ~IsInsufficientDeposit(SyncPreVal) /\ HasDelegatingStake(SyncPreVal)
OnDefaultPath ==
  UpdateBalanceSucceeded /\ ~IsInsufficientDeposit(SyncPreVal) /\ ~HasDelegatingStake(SyncPreVal)
InitTxFrom == txs[last.op.InitTxHash].from

\* C12: in every reachable state no stake ledger holds an entry of amount
\* zero; a refund that empties an entry removes it in the same operation.
C12_NoZeroEntry ==
  \A a \in Addr : st.validators[a] # Nil =>
    \A x \in DOMAIN st.validators[a].Stake : st.validators[a].Stake[x] # 0
\* an UpdateBalance refund of the sender's whole entry removed the entry
C12_Witness ==
  /\ OnRefundPath /\ IsForkSlotValOpTracking(slot)
  /\ StakeByAddress(SyncPreVal, InitTxFrom) # NilAmt
  /\ StakeByAddress(SyncPreVal, InitTxFrom) <= last.op.Amount
  /\ StakeByAddress(SyncPostVal, InitTxFrom) = NilAmt
\* a Withdrawal refund of the sender's whole entry removed the entry
C12_WithdrawalReached ==
  /\ WithdrawalSucceeded /\ ~IsForkSlotValOpTracking(slot)
  /\ IsInsufficientDeposit(PreVal)
  /\ StakeByAddress(PreVal, last.from) # NilAmt
  /\ StakeByAddress(PostVal, last.from) = NilAmt
\* a partial refund keeps the entry with what is left
C12_PartialReached ==
  /\ OnRefundPath /\ IsForkSlotValOpTracking(slot)
  /\ StakeByAddress(SyncPostVal, InitTxFrom) = StakeByAddress(SyncPreVal, InitTxFrom) - last.op.Amount
  /\ StakeByAddress(SyncPostVal, InitTxFrom) > 0

\* the latest state change before the request was a successful UpdateBalance of
\* the same validator (its log is the last one), and the request is refused as
\* blocked: the pending tx is the one that UpdateBalance resolved
BlockedByResolved ==
  /\ last.kind = "Withdrawal" /\ last.err = ErrValOpBlocked
  /\ Len(pre.logs) > 0
  /\ pre.logs[Len(pre.logs)].Evt \in {"UpdateBalance", "DelegatingStake"}
  /\ pre.logs[Len(pre.logs)].Creator = LastCreator

\* C13 as stated: after every successful UpdateBalance, on each path, the
\* stored record has no pending withdrawal tx, and a following Withdrawal is
\* not blocked by the resolved one.
C13_AsStated ==
  /\ UpdateBalanceSucceeded => SyncPostVal.WithdrawalTx = NoTx
  /\ ~BlockedByResolved
\* C13, what the code does: the refund path and the default path store the
\* record with the pending withdrawal tx cleared; the delegating path stores
\* nothing, the record keeps the pending tx it had.
C13_PendingCleared ==
  /\ (OnRefundPath \/ OnDefaultPath) => SyncPostVal.WithdrawalTx = NoTx
  /\ OnDelegatingPath => SyncPostVal = SyncPreVal
  /\ BlockedByResolved => HasDelegatingStake(PreVal)
\* a delegating-path UpdateBalance resolved the pending withdrawal and left it pending
C13_Witness ==
  /\ OnDelegatingPath
  /\ SyncPreVal.WithdrawalTx = last.op.InitTxHash
  /\ SyncPostVal.WithdrawalTx = last.op.InitTxHash
C13_RefundClearedReached ==
  OnRefundPath /\ SyncPreVal.WithdrawalTx = last.op.InitTxHash /\ SyncPostVal.WithdrawalTx = NoTx
C13_DefaultClearedReached ==
  OnDefaultPath /\ SyncPreVal.WithdrawalTx = last.op.InitTxHash /\ SyncPostVal.WithdrawalTx = NoTx
C13_BlockedReached == BlockedByResolved /\ InWindow(PreVal.WithdrawalTx)

\* the balances after the call: those before it, with amt more at address a
CreditedOnly(a, amt) ==
  st.balances = [pre.balances EXCEPT ![a] = @ + amt]
\* an UpdateBalance call that finds a never activated record with too little stake
RefundCall ==
  /\ last.kind = "Sync" /\ last.op.OpCode = UpdateBalanceCode
  /\ SyncPreVal # Nil /\ IsInsufficientDeposit(SyncPreVal)
\* the errors of the checks that precede the branch on the record
SyncValidationErrs ==
  {ErrNoSavedValSyncOp, ErrInvalidOpEpoch, ErrMismatchValSyncOp, ErrValSyncTxExists,
   ErrInvalidCreator, "ErrNoBalance", ErrReceiptNF, ErrInvalidReceiptStatus}
UpdateBalanceCheckErrs ==
  {ErrNoActiveWithdrawalOp, ErrValOpBlocked, "initTx receipt not found",
   "initTx receipt status is failed"}
AppliedRules == ActualRules(Ctx(Nil, FALSE), SyncPreVal)

\* C14: a successful UpdateBalance decreases no balance; the refund path
\* credits op.Amount to the sender of the initiating tx, which is a
\* Withdrawal (a missing one gives ErrTxNF, another operation
\* ErrInvalidOpCode, when the preceding checks pass); the default path
\* credits op.Amount to WithdrawalAddress; the delegating path credits
\* only holders of the applied profit-share and stake-share maps.
C14_UpdateBalanceCredits ==
  /\ UpdateBalanceSucceeded => \A a \in Addr : st.balances[a] >= pre.balances[a]
  /\ OnRefundPath =>
       /\ KnownTx(Ctx(Nil, FALSE), last.op.InitTxHash)
       /\ txs[last.op.InitTxHash].kind = WithdrawalCode
       /\ CreditedOnly(InitTxFrom, last.op.Amount)
  /\ (RefundCall /\ ~KnownTx(Ctx(Nil, FALSE), last.op.InitTxHash)) =>
       last.err \in {ErrTxNF} \cup SyncValidationErrs \cup UpdateBalanceCheckErrs
  /\ (RefundCall /\ KnownTx(Ctx(Nil, FALSE), last.op.InitTxHash)
        /\ txs[last.op.InitTxHash].kind # WithdrawalCode) =>
       last.err \in {ErrInvalidOpCode} \cup SyncValidationErrs \cup UpdateBalanceCheckErrs
  /\ OnDefaultPath => CreditedOnly(SyncPreVal.WithdrawalAddress, last.op.Amount)
  /\ OnDelegatingPath =>
       \A a \in Addr : st.balances[a] # pre.balances[a] =>
         a \in (DOMAIN AppliedRules.ProfitShare) \cup (DOMAIN AppliedRules.StakeShare)
\* the default path credited a withdrawal address that is not the creator
C14_Witness ==
  /\ OnDefaultPath /\ last.op.Amount > 0
  /\ SyncPreVal.WithdrawalAddress # SyncCreator
  /\ st.balances[SyncPreVal.WithdrawalAddress]
       = pre.balances[SyncPreVal.WithdrawalAddress] + last.op.Amount
C14_RefundReached ==
  OnRefundPath /\ InitTxFrom # SyncPreVal.WithdrawalAddress /\ last.op.Amount > 0
C14_DelegatingReached ==
  OnDelegatingPath /\ \E a \in Addr : st.balances[a] > pre.balances[a]
C14_TxNFReached ==
  RefundCall /\ last.err = ErrTxNF /\ IsSlashInit(last.op)
C14_InvalidOpCodeReached ==
  /\ RefundCall /\ last.err = ErrInvalidOpCode
  /\ KnownTx(Ctx(Nil, FALSE), last.op.InitTxHash)
  /\ txs[last.op.InitTxHash].kind = DepositCode

\* the two portions of the operation being applied
ProfitPortion == DelegatingSplit(last.op.Balance, last.op.Amount).profit
StakePortion == DelegatingSplit(last.op.Balance, last.op.Amount).stake
\* floor(P/100)*s for a holder of the map, nothing for anybody else or for P <= 0
PortionCredit(P, shares, a) ==
  IF P > 0 /\ a \in DOMAIN shares THEN (P \div 100) * shares[a] ELSE 0
Credited(a) == st.balances[a] - pre.balances[a]
RECURSIVE SumCredited(_)
SumCredited(S) ==
  IF S = {} THEN 0 ELSE LET a == CHOOSE x \in S : TRUE IN Credited(a) + SumCredited(S \ {a})
Whole(P) == IF P > 0 THEN 100 * (P \div 100) ELSE 0

\* C15: on the delegating path each holder of a share s of a portion P > 0
\* is credited floor(P/100)*s; the credits of a portion sum to
\* 100*floor(P/100), at most P and equal to P when 100 divides P; the
\* remainder P mod 100 is credited to nobody.
C15_ShareTruncation ==
  OnDelegatingPath =>
    /\ \A a \in Addr :
         Credited(a) = PortionCredit(ProfitPortion, AppliedRules.ProfitShare, a)
                       + PortionCredit(StakePortion, AppliedRules.StakeShare, a)
    /\ SumCredited(Addr) = Whole(ProfitPortion) + Whole(StakePortion)
    /\ Whole(ProfitPortion) <= ProfitPortion /\ Whole(StakePortion) <= StakePortion
    /\ (ProfitPortion % 100 = 0 /\ StakePortion % 100 = 0) =>
         SumCredited(Addr) = ProfitPortion + StakePortion
\* a profit of 100 shared 10/30/60
C15_Witness ==
  /\ OnDelegatingPath /\ ProfitPortion = 100 /\ StakePortion = 0
  /\ AppliedRules = Rules1
  /\ Credited("a1") = 10 /\ Credited("a2") = 30 /\ Credited("a3") = 60
\* a profit of 101: the same credits, one unit is credited to nobody
C15_RemainderReached ==
  /\ OnDelegatingPath /\ ProfitPortion = 101 /\ StakePortion = 0
  /\ AppliedRules = Rules1
  /\ Credited("a1") = 10 /\ Credited("a2") = 30 /\ Credited("a3") = 60
\* a stake portion below 100 credits nothing
C15_AllDroppedReached ==
  OnDelegatingPath /\ StakePortion > 0 /\ StakePortion < 100 /\ SumCredited(Addr) = 0
C15_StakeShareReached ==
  /\ OnDelegatingPath /\ StakePortion >= 100 /\ StakePortion % 100 # 0
  /\ AppliedRules = Rules1 /\ Credited("a1") = 70 * (StakePortion \div 100)

\* the part of the balance before the withdrawal that lies above the threshold
AboveThreshold(balance, amount) ==
  IF balance + amount - EffectiveBalance < 0 THEN 0 ELSE balance + amount - EffectiveBalance
Min(x, y) == IF x < y THEN x ELSE y
MaxGrid == 12
SplitGrid == { 50 * k : k \in 0..MaxGrid }
\* the split the code computes for one balance and amount
SplitLaw(balance, amount) ==
  LET split == DelegatingSplit(balance, amount)
      pb == AboveThreshold(balance, amount)
  IN /\ split.profit >= 0 /\ split.stake >= 0
     /\ pb <= amount => (split.profit = pb /\ split.stake = amount - pb)
     /\ pb > amount => (split.profit = pb - amount /\ split.stake = 0)

\* C16 as stated: the two portions are non-negative, sum to op.Amount, the
\* profit portion is min(Amount, max(0, Balance + Amount - threshold)), and
\* the total credited on the delegating path never exceeds op.Amount.
C16_AsStated ==
  OnDelegatingPath =>
    /\ ProfitPortion >= 0 /\ StakePortion >= 0
    /\ ProfitPortion + StakePortion = last.op.Amount
    /\ ProfitPortion = Min(last.op.Amount, AboveThreshold(last.op.Balance, last.op.Amount))
    /\ SumCredited(Addr) <= last.op.Amount
\* C16, what the code does: the portions are non-negative; when the part
\* above the threshold is at most op.Amount the split is the stated one;
\* when it is larger the profit portion is that part minus op.Amount and
\* the stake portion is zero.  The law of the split is also evaluated over
\* a grid of balances and amounts (a constant formula, evaluated while no
\* transaction is recorded).
C16_SplitComputed ==
  /\ OnDelegatingPath => SplitLaw(last.op.Balance, last.op.Amount)
  /\ OnDelegatingPath =>
       (AboveThreshold(last.op.Balance, last.op.Amount) <= last.op.Amount
          => SumCredited(Addr) <= last.op.Amount)
  /\ Len(txs) = 0 => \A b \in SplitGrid, a \in SplitGrid : SplitLaw(b, a)
\* more is credited than the operation's amount
C16_Witness ==
  /\ OnDelegatingPath
  /\ AboveThreshold(last.op.Balance, last.op.Amount) > 2 * last.op.Amount
  /\ ProfitPortion > last.op.Amount
  /\ SumCredited(Addr) > last.op.Amount
\* the amount straddles the threshold: both portions are positive and sum to it
C16_StraddleReached ==
  /\ OnDelegatingPath /\ ProfitPortion > 0 /\ StakePortion > 0
  /\ ProfitPortion + StakePortion = last.op.Amount

\* ------------------------------------------------ validation of sync operations
\* The sync transactions are recorded on the chain like the requests, so that a
\* sync operation can name one of them as its initiating tx, and the saved sync
\* data can carry the hash of an earlier sync tx.
SyncTxRecord(rc) ==
  [kind |-> last.op.OpCode, from |-> last.from, creator |-> last.op.Creator,
   amount |-> last.op.Amount, exitAfterEpoch |-> NilAmt,
   bl |-> BlockHashAt(slot), slot |-> slot, rc |-> rc]

\* a sync op with the saved sync data the chain holds for it: [op, saved, sameTx, packFails];
\* sameTx: the saved data carries the hash of the transaction being processed
SyncTxStep(Inputs) ==
  /\ Idle
  /\ \E i \in Inputs :
       LET txHash == IF Len(txs) < MaxTx THEN Len(txs) + 1 ELSE SyncTxHash
           saved == IF i.saved # Nil /\ i.sameTx THEN [i.saved EXCEPT !.TxHash = txHash]
                    ELSE i.saved
       IN CallStep("Sync", Coordinator, ValidatorsStateAddress, 0, i.op, saved,
                   i.packFails, txHash)

\* the end of a transaction when successful sync transactions are recorded too
EndTxAllStep(Receipts) ==
  /\ last.kind # "none"
  /\ IF last.err = ErrNone /\ last.kind # "Sync"
     THEN \E rc \in (IF last.kind = "Deposit" THEN {"ok"} ELSE Receipts) :
            txs' = Append(txs, TxRecord(rc))
     ELSE IF last.err = ErrNone /\ last.tx = Len(txs) + 1
     THEN \E rc \in Receipts : txs' = Append(txs, SyncTxRecord(rc))
     ELSE txs' = txs
  /\ last' = NoCall
  /\ pre' = st
  /\ UNCHANGED <<st, slot, conf, dag>>

UnknownTxHash == 150
V_Deposits == { Req("a1", ValidatorsStateAddress, EffectiveBalance, PlainDeposit) }
V_Exits == { Req("a3", ValidatorsStateAddress, 0, ExitOp("pk1", "a1", e)) : e \in {NilAmt, 5} }
V_Withdrawals == { Req("a3", ValidatorsStateAddress, 0, WithdrawalOp("a1", 5)) }
V_Ops ==
  { SyncOp(ActivateCode, "a1", e, 0, NilAmt, NilAmt, h) :
      e \in {0, 1}, h \in {1, 2, SlashHash("a1")} }
  \cup { SyncOp(DeactivateCode, "a1", e, 0, NilAmt, NilAmt, h) :
           e \in {4, 6}, h \in {3, SlashHash("a1")} }
  \cup { SyncOp(UpdateBalanceCode, cr, 1, 0, 5, InitBalance, h) :
           cr \in Creators, h \in {2, 3} }
  \cup { SyncOp(UpdateBalanceCode, "a1", 1, 0, 5, NilAmt, 2) }
\* saved sync data that differs from the op in one field
V_Mismatches(op) ==
  { [SavedOf(op) EXCEPT !.InitTxHash = UnknownTxHash],
    [SavedOf(op) EXCEPT !.OpType = IF op.OpType = ActivateCode THEN DeactivateCode
                                   ELSE ActivateCode],
    [SavedOf(op) EXCEPT !.Creator = "a3"],
    [SavedOf(op) EXCEPT !.Index = op.Index + 1],
    [SavedOf(op) EXCEPT !.ProcEpoch = op.ProcEpoch + 1],
    [SavedOf(op) EXCEPT !.Amount = IF op.Amount = NilAmt THEN 5 ELSE NilAmt],
    [SavedOf(op) EXCEPT !.Amount = IF op.Amount = NilAmt THEN NilAmt ELSE op.Amount + 1] }
\* saved sync data that carries the hash of an earlier tx
V_Resubmitted(op) ==
  { [SavedOf(op) EXCEPT !.TxHash = h] : h \in (1..MaxTx) \cup {UnknownTxHash} }
SavedIn(op, saved, sameTx) ==
  [op |-> op, saved |-> saved, sameTx |-> sameTx, packFails |-> FALSE]
V_Syncs ==
  { SavedIn(op, Nil, FALSE) : op \in V_Ops }
  \cup { SavedIn(op, SavedOf(op), same) : op \in V_Ops, same \in BOOLEAN }
  \cup UNION { { SavedIn(op, sv, FALSE) : sv \in V_Mismatches(op) \cup V_Resubmitted(op) } :
                op \in V_Ops }
V_Deposit == DepositStep(V_Deposits)
V_Exit == ExitStep(V_Exits)
V_Withdrawal == WithdrawalStep(V_Withdrawals)
V_Sync == SyncTxStep(V_Syncs)
V_EndTx == EndTxAllStep({"ok", "failed", "none"})
V_NextBlock == NextBlockStep({1, 2, 4})
NextV == V_Deposit \/ V_Exit \/ V_Withdrawal \/ V_Sync \/ V_EndTx \/ V_NextBlock
SpecV == Init /\ [][NextV]_vars

SyncCall == last.kind = "Sync"
\* the call changed a validator record or an account balance
SyncChanged == st.validators # pre.validators \/ st.balances # pre.balances
\* the saved data equals the op on InitTxHash, OpType, Creator, Index and Amount
SavedFieldsEqual ==
  /\ last.saved.InitTxHash = last.op.InitTxHash
  /\ last.saved.OpType = last.op.OpType
  /\ last.saved.Creator = last.op.Creator
  /\ last.saved.Index = last.op.Index
  /\ last.saved.Amount = last.op.Amount
\* before the delegate fork: the epoch of the block is not after the op's ProcEpoch
BlockEpochOk == IsForkSlotDelegate(slot) \/ SlotToEpoch(slot) <= last.op.ProcEpoch
SavedEpochOk == IsForkSlotDelegate(slot) \/ last.saved.ProcEpoch <= last.op.ProcEpoch

\* C17: a sync operation changes a validator record or a balance only if the
\* chain holds saved sync data that equals it on InitTxHash, OpType, Creator,
\* Index and Amount and, before the delegate fork, has ProcEpoch <= the op's
\* with the block's epoch <= the op's ProcEpoch; without saved data it fails
\* with ErrNoSavedValSyncOp, with a mismatching field with
\* ErrMismatchValSyncOp (the block-epoch check comes first and answers
\* ErrInvalidOpEpoch), and nothing changes.
C17_SyncNeedsSavedData ==
  SyncCall =>
    /\ SyncChanged =>
         (last.saved # Nil /\ SavedFieldsEqual /\ SavedEpochOk /\ BlockEpochOk)
    /\ last.saved = Nil => (last.err = ErrNoSavedValSyncOp /\ ~SyncChanged)
    /\ (last.saved # Nil /\ ~(SavedFieldsEqual /\ SavedEpochOk)) =>
         /\ ~SyncChanged
         /\ last.err = IF BlockEpochOk THEN ErrMismatchValSyncOp ELSE ErrInvalidOpEpoch
    /\ (last.saved # Nil /\ ~BlockEpochOk) => (last.err = ErrInvalidOpEpoch /\ ~SyncChanged)
\* saved data with another validator index: rejected, the record is kept
C17_Witness ==
  /\ SyncCall /\ SyncPreVal # Nil /\ last.saved # Nil
  /\ last.saved.Index # last.op.Index
  /\ [last.saved EXCEPT !.Index = last.op.Index] = SavedOf(last.op)
  /\ last.err = ErrMismatchValSyncOp /\ ~SyncChanged
C17_NoSavedReached ==
  SyncCall /\ SyncPreVal # Nil /\ last.saved = Nil /\ last.err = ErrNoSavedValSyncOp
C17_AppliedReached == SyncCall /\ SyncChanged /\ last.err = ErrNone
C17_SavedEpochReached ==
  /\ SyncCall /\ last.saved # Nil /\ SavedFieldsEqual /\ ~SavedEpochOk /\ BlockEpochOk
  /\ last.err = ErrMismatchValSyncOp
\* after the fork a later saved ProcEpoch is accepted
C17_SavedEpochAfterForkReached ==
  /\ SyncCall /\ SyncChanged /\ last.saved.ProcEpoch > last.op.ProcEpoch
C17_BlockEpochReached ==
  SyncCall /\ last.saved # Nil /\ ~BlockEpochOk /\ last.err = ErrInvalidOpEpoch
C17_AmountNilReached ==
  /\ SyncCall /\ last.saved # Nil /\ last.saved.Amount = NilAmt /\ last.op.Amount # NilAmt
  /\ last.err = ErrMismatchValSyncOp

\* the sync call passed the checks on the saved data that come before the tx hash
SavedDataMatches ==
  SyncCall /\ last.saved # Nil /\ BlockEpochOk /\ SavedFieldsEqual /\ SavedEpochOk
\* the saved data carries the hash of another transaction
OtherTxSaved == last.saved.TxHash # NoTx /\ last.saved.TxHash # last.tx
\* the chain has a successful receipt of the tx recorded in the saved data
PrevTxSuccessful ==
  last.saved.TxHash \in 1..Len(txs) /\ txs[last.saved.TxHash].rc = "ok"

\* C18: saved sync data that carries the hash of another tx rejects the
\* operation with ErrValSyncTxExists, except that once the delegate fork is
\* active the operation passes when the receipt of the recorded tx is
\* missing or not successful; saved data with no tx hash or with the hash
\* of the tx being processed never gives ErrValSyncTxExists.
C18_SyncTxExists ==
  /\ (SavedDataMatches /\ OtherTxSaved /\ (~IsForkSlotDelegate(slot) \/ PrevTxSuccessful)) =>
       (last.err = ErrValSyncTxExists /\ ~SyncChanged)
  /\ (SavedDataMatches /\ OtherTxSaved /\ IsForkSlotDelegate(slot) /\ ~PrevTxSuccessful) =>
       last.err # ErrValSyncTxExists
  /\ (SyncCall /\ last.saved # Nil /\ ~OtherTxSaved) => last.err # ErrValSyncTxExists
  /\ (SyncCall /\ last.saved = Nil) => last.err # ErrValSyncTxExists
\* after the fork an operation is applied again after a failed earlier tx
C18_Witness ==
  /\ SavedDataMatches /\ OtherTxSaved /\ IsForkSlotDelegate(slot)
  /\ last.saved.TxHash \in 1..Len(txs) /\ txs[last.saved.TxHash].rc = "failed"
  /\ last.err = ErrNone /\ SyncChanged
C18_RejectedAfterForkReached ==
  /\ SavedDataMatches /\ OtherTxSaved /\ IsForkSlotDelegate(slot) /\ PrevTxSuccessful
  /\ last.err = ErrValSyncTxExists
C18_RejectedBeforeForkReached ==
  /\ SavedDataMatches /\ OtherTxSaved /\ ~IsForkSlotDelegate(slot) /\ ~PrevTxSuccessful
  /\ last.err = ErrValSyncTxExists
C18_MissingReceiptReached ==
  /\ SavedDataMatches /\ OtherTxSaved /\ IsForkSlotDelegate(slot)
  /\ last.saved.TxHash \notin 1..Len(txs) /\ last.err = ErrNone
C18_SameTxReached ==
  SavedDataMatches /\ last.saved.TxHash = last.tx /\ last.err = ErrNone /\ SyncChanged

\* the sync call passed every check that comes before the initiating tx
PassedSavedChecks ==
  /\ SavedDataMatches
  /\ ~(OtherTxSaved /\ (~IsForkSlotDelegate(slot) \/ PrevTxSuccessful))
InitTxKnown == last.op.InitTxHash \in 1..Len(txs)
InitTx == txs[last.op.InitTxHash]
InitTxErrs ==
  {ErrTxNF, ErrInvalidOpCode, ErrInvalidCreator, ErrInvalidOpEpoch, ErrReceiptNF,
   ErrInvalidReceiptStatus, "ErrNoBalance"}
\* what the claim requires of the initiating tx
InitTxAcceptable ==
  /\ InitTxKnown
  /\ InitTx.kind \in {DepositCode, ExitCode, WithdrawalCode}
  /\ InitTx.creator = last.op.Creator
  /\ (InitTx.kind = ExitCode /\ InitTx.exitAfterEpoch # NilAmt)
       => InitTx.exitAfterEpoch <= last.op.ProcEpoch
  /\ InitTx.rc = "ok"
\* the error the checks answer, in their order
InitTxErr ==
  IF ~InitTxKnown THEN ErrTxNF
  ELSE IF InitTx.kind \notin {DepositCode, ExitCode, WithdrawalCode} THEN ErrInvalidOpCode
  ELSE IF InitTx.creator # last.op.Creator THEN ErrInvalidCreator
  ELSE IF InitTx.kind = ExitCode /\ InitTx.exitAfterEpoch # NilAmt
          /\ InitTx.exitAfterEpoch > last.op.ProcEpoch THEN ErrInvalidOpEpoch
  ELSE IF InitTx.kind = WithdrawalCode /\ last.op.Balance = NilAmt THEN "ErrNoBalance"
  ELSE IF InitTx.rc = "none" THEN ErrReceiptNF
  ELSE ErrInvalidReceiptStatus

\* C19: a sync operation that is not slashing-initiated is accepted only if
\* its initiating tx exists (else ErrTxNF), is a Deposit, Exit or Withdrawal
\* (else ErrInvalidOpCode) of the same creator (else ErrInvalidCreator), an
\* Exit's ExitAfterEpoch is not after the op's ProcEpoch (else
\* ErrInvalidOpEpoch) and its receipt exists and is successful (else
\* ErrReceiptNF / ErrInvalidReceiptStatus); a slashing-initiated operation
\* skips these checks.
C19_InitTxChecked ==
  /\ (SyncCall /\ last.err = ErrNone /\ ~IsSlashInit(last.op)) => InitTxAcceptable
  /\ (PassedSavedChecks /\ ~IsSlashInit(last.op) /\ ~InitTxAcceptable) =>
       (last.err = InitTxErr /\ ~SyncChanged)
  /\ (PassedSavedChecks /\ IsSlashInit(last.op)) => last.err \notin InitTxErrs
\* the initiating Exit asks for a later epoch than the op's
C19_Witness ==
  /\ PassedSavedChecks /\ ~IsSlashInit(last.op) /\ InitTxKnown
  /\ InitTx.kind = ExitCode /\ InitTx.creator = last.op.Creator /\ InitTx.rc = "ok"
  /\ InitTx.exitAfterEpoch > last.op.ProcEpoch
  /\ last.err = ErrInvalidOpEpoch
C19_TxNFReached == PassedSavedChecks /\ ~IsSlashInit(last.op) /\ last.err = ErrTxNF
C19_InvalidOpCodeReached ==
  /\ PassedSavedChecks /\ InitTxKnown /\ InitTx.kind = ActivateCode
  /\ last.err = ErrInvalidOpCode
C19_InvalidCreatorReached ==
  PassedSavedChecks /\ InitTxKnown /\ last.err = ErrInvalidCreator
C19_ReceiptNFReached ==
  PassedSavedChecks /\ InitTxKnown /\ InitTx.rc = "none" /\ last.err = ErrReceiptNF
C19_ReceiptFailedReached ==
  PassedSavedChecks /\ InitTxKnown /\ InitTx.rc = "failed" /\ last.err = ErrInvalidReceiptStatus
C19_AcceptedReached ==
  /\ SyncCall /\ last.err = ErrNone /\ ~IsSlashInit(last.op)
  /\ InitTx.kind = ExitCode /\ InitTx.exitAfterEpoch # NilAmt
C19_SlashingReached ==
  SyncCall /\ last.err = ErrNone /\ IsSlashInit(last.op) /\ ~InitTxKnown /\ SyncChanged

\* ------------------------------------------------ exit requests of any validator
X_Deposits == { Req("a1", ValidatorsStateAddress, EffectiveBalance, PlainDeposit) }
X_Exits ==
  { Req(f, ValidatorsStateAddress, 0, ExitOp(pk, cr, NilAmt)) :
      f \in {"a1", "a3"}, pk \in PubKeys, cr \in Creators }
  \cup { Req("a3", OtherAddress, 0, ExitOp("pk1", "a1", NilAmt)) }
X_Ops ==
  { SyncOp(ActivateCode, "a1", 0, 0, NilAmt, NilAmt, 1),
    SyncOp(DeactivateCode, "a1", 6, 0, NilAmt, NilAmt, 2),
    SyncOp(DeactivateCode, "a1", 6, 0, NilAmt, NilAmt, SlashHash("a1")) }
X_Syncs == { SyncIn(op, TRUE, FALSE) : op \in X_Ops }
X_Deposit == DepositStep(X_Deposits)
X_Exit == ExitStep(X_Exits)
X_Sync == SyncStep(X_Syncs)
X_EndTx == EndTxStep({"ok", "failed"})
X_NextBlock == NextBlockStep({1, 3, 4, 6, 7})
NextX == X_Deposit \/ X_Exit \/ X_Sync \/ X_EndTx \/ X_NextBlock
SpecX == Init /\ [][NextX]_vars

ExitCall == last.kind = "Exit"
\* the first of the four conditions that holds gives the error
ExitRejection ==
  IF PreVal = Nil THEN ErrUnknownValidator
  ELSE IF last.op.PubKey # PreVal.PubKey THEN ErrMismatchPulicKey
  ELSE IF PreVal.ActivationEra > CurrentEra THEN ErrNotActivatedValidator
  ELSE IF PreVal.ExitEra # MaxUint64 THEN ErrValidatorIsOut
  ELSE ErrNone

\* C20: an Exit request is rejected with ErrUnknownValidator when the
\* creator has no record, with ErrMismatchPulicKey when the public key
\* differs from the stored one, with ErrNotActivatedValidator when
\* ActivationEra is after the current era, with ErrValidatorIsOut when
\* ExitEra is not the sentinel (the first condition that holds decides, for
\* a request addressed to the validators state address); a pending exit tx
\* is recorded only for a validator that is activated and not exited.
C20_ExitRejections ==
  /\ (ExitCall /\ ExitRejection # ErrNone) =>
       /\ last.err # ErrNone
       /\ st.validators = pre.validators
       /\ WellAddressed => last.err = ExitRejection
  /\ (ExitCall /\ last.err = ErrNone) =>
       /\ PreVal # Nil
       /\ PreVal.ActivationEra <= CurrentEra /\ PreVal.ExitEra = MaxUint64
       /\ PostVal.ExitTx = last.tx
  /\ \A a \in Addr :
       (st.validators[a] # Nil /\ st.validators[a].ExitTx # NoTx) =>
         (st.validators[a].ActivationEra <= CurrentEra /\ st.validators[a].ExitEra = MaxUint64)
\* the request of an exited validator
C20_Witness ==
  /\ ExitCall /\ WellAddressed /\ PreVal # Nil
  /\ last.op.PubKey = PreVal.PubKey /\ PreVal.ActivationEra <= CurrentEra
  /\ PreVal.ExitEra # MaxUint64
  /\ last.err = ErrValidatorIsOut /\ PostVal = PreVal
C20_UnknownReached == ExitCall /\ PreVal = Nil /\ last.err = ErrUnknownValidator
C20_PubKeyReached ==
  /\ ExitCall /\ PreVal # Nil /\ last.op.PubKey # PreVal.PubKey
  /\ PreVal.ActivationEra <= CurrentEra /\ last.err = ErrMismatchPulicKey
C20_NotActivatedReached ==
  /\ ExitCall /\ PreVal # Nil /\ PreVal.ActivationEra # MaxUint64
  /\ PreVal.ActivationEra > CurrentEra /\ last.err = ErrNotActivatedValidator
C20_RecordedReached == ExitCall /\ last.err = ErrNone /\ PostVal.ExitTx = last.tx
C20_ClearedReached ==
  DeactivateSucceeded /\ SyncPreVal.ExitTx # NoTx /\ SyncPostVal.ExitTx = NoTx

\* ------------------------------------------------ authorization of the sender
\* the first slot of an era
EraStartSlot(n) == n * EpochsPerEra * SlotsPerEpoch
\* the trial period of a delegating validator v at the slot being processed:
\* not yet activated, or not past the end of the trial, or exited by the end of it
TrialNow(v) ==
  \/ v.ActivationEra > CurrentEra
  \/ slot <= EraStartSlot(v.ActivationEra) + v.DelegatingStake.TrialPeriod
  \/ /\ v.ExitEra <= CurrentEra
     /\ EraStartSlot(v.ExitEra) <= EraStartSlot(v.ActivationEra) + v.DelegatingStake.TrialPeriod
RulesNow(v) == IF TrialNow(v) THEN v.DelegatingStake.TrialRules ELSE v.DelegatingStake.Rules
\* an Exit request that passes the checks on the address and on the record
ExitReachesAuth == ExitCall /\ WellAddressed /\ ExitRejection = ErrNone
ExitSenderOk ==
  IF PreVal.DelegatingStake # Nil THEN InList(last.from, RulesNow(PreVal).Exit)
  ELSE last.from = PreVal.WithdrawalAddress

\* C21: an Exit request succeeds only if its sender is authorized: with
\* delegating stake the sender is in the Exit list of TrialRules during the
\* trial period and of Rules otherwise (else ErrSenderRejByDelegate);
\* without delegating stake the sender is WithdrawalAddress (else
\* ErrInvalidFromAddresses).
C21_ExitSenderAuthorized ==
  /\ (ExitCall /\ last.err = ErrNone) => ExitSenderOk
  /\ (ExitReachesAuth /\ ~ExitSenderOk) =>
       /\ last.err = IF PreVal.DelegatingStake # Nil THEN ErrSenderRejByDelegate
                     ELSE ErrInvalidFromAddresses
       /\ st.validators = pre.validators
\* during the trial period a sender of the Exit list of Rules only is refused
C21_Witness ==
  /\ ExitReachesAuth /\ PreVal.DelegatingStake # Nil /\ TrialNow(PreVal)
  /\ InList(last.from, PreVal.DelegatingStake.Rules.Exit)
  /\ ~InList(last.from, PreVal.DelegatingStake.TrialRules.Exit)
  /\ last.err = ErrSenderRejByDelegate
C21_AfterTrialReached ==
  /\ ExitCall /\ last.err = ErrNone /\ PreVal.DelegatingStake # Nil /\ ~TrialNow(PreVal)
  /\ ~InList(last.from, PreVal.DelegatingStake.TrialRules.Exit)
C21_TrialReached ==
  /\ ExitCall /\ last.err = ErrNone /\ PreVal.DelegatingStake # Nil /\ TrialNow(PreVal)
  /\ ~InList(last.from, PreVal.DelegatingStake.Rules.Exit)
C21_PlainRefusedReached ==
  ExitReachesAuth /\ PreVal.DelegatingStake = Nil /\ last.err = ErrInvalidFromAddresses
C21_PlainReached ==
  /\ ExitCall /\ last.err = ErrNone /\ PreVal.DelegatingStake = Nil
  /\ last.from = PreVal.WithdrawalAddress

WithdrawalCall == last.kind = "Withdrawal"
\* a Withdrawal request that passes the checks made before the authorization:
\* address, amount, record, no pending withdrawal in the block or in the window
WithdrawalReachesAuth ==
  /\ WithdrawalCall /\ WellAddressed /\ last.op.Amount <= MaxCastable /\ PreVal # Nil
  /\ ~(PendingW /\ (ReportedInBlock(PreVal.WithdrawalTx) \/ InWindow(PreVal.WithdrawalTx)))
\* never activated, with total stake below the threshold
Insufficient(v) == v.ActivationEra = MaxUint64 /\ TotalStake(v) < EffectiveBalance
\* the answer of the authorization for the state of the validator
WithdrawalSenderErr ==
  IF Insufficient(PreVal)
  THEN IF last.from \notin DOMAIN PreVal.Stake THEN ErrInvalidFromAddresses
       ELSE IF PreVal.Stake[last.from] = 0 THEN ErrInvalidFromAddresses
       ELSE IF last.op.Amount > PreVal.Stake[last.from] THEN ErrInsufficientFundsForOp
       ELSE ErrNone
  ELSE IF PreVal.DelegatingStake # Nil
  THEN IF InList(last.from, RulesNow(PreVal).Withdrawal) THEN ErrNone
       ELSE ErrSenderRejByDelegate
  ELSE IF last.from = PreVal.WithdrawalAddress THEN ErrNone ELSE ErrInvalidFromAddresses
LastLog == st.logs[Len(st.logs)]

\* C22: a Withdrawal request succeeds only if its sender is authorized for
\* the validator's state: (a) never activated and under the threshold: the
\* sender holds a non-zero ledger entry (else ErrInvalidFromAddresses) that
\* covers the amount (else ErrInsufficientFundsForOp), amount 0 meaning the
\* whole entry; (b) otherwise with delegating stake: the sender is in the
\* Withdrawal list of the trial-aware rules (else ErrSenderRejByDelegate);
\* (c) otherwise the sender is WithdrawalAddress (else
\* ErrInvalidFromAddresses).
C22_WithdrawalSenderAuthorized ==
  /\ (WithdrawalCall /\ last.err = ErrNone) => WithdrawalSenderErr = ErrNone
  /\ (WithdrawalReachesAuth /\ WithdrawalSenderErr # ErrNone) =>
       (last.err = WithdrawalSenderErr /\ st.validators = pre.validators)
  /\ (WithdrawalReachesAuth /\ WithdrawalSenderErr = ErrNone) => last.err = ErrNone
  /\ (WithdrawalCall /\ last.err = ErrNone /\ Insufficient(PreVal)) =>
       LastLog.Index = IF last.op.Amount = 0 THEN PreVal.Stake[last.from] ELSE last.op.Amount
\* the amount exceeds the sender's ledger entry
C22_Witness ==
  /\ WithdrawalReachesAuth /\ Insufficient(PreVal)
  /\ last.from \in DOMAIN PreVal.Stake
  /\ last.op.Amount > PreVal.Stake[last.from]
  /\ last.err = ErrInsufficientFundsForOp
C22_NotDepositorReached ==
  /\ WithdrawalReachesAuth /\ Insufficient(PreVal) /\ last.from \notin DOMAIN PreVal.Stake
  /\ last.from = PreVal.WithdrawalAddress /\ last.err = ErrInvalidFromAddresses
C22_WholeEntryReached ==
  /\ WithdrawalCall /\ last.err = ErrNone /\ Insufficient(PreVal) /\ last.op.Amount = 0
  /\ LastLog.Index = PreVal.Stake[last.from]
C22_DelegateRefusedReached ==
  /\ WithdrawalReachesAuth /\ ~Insufficient(PreVal) /\ PreVal.DelegatingStake # Nil
  /\ last.err = ErrSenderRejByDelegate
C22_TrialReached ==
  /\ WithdrawalCall /\ last.err = ErrNone /\ ~Insufficient(PreVal)
  /\ PreVal.DelegatingStake # Nil /\ TrialNow(PreVal)
  /\ ~InList(last.from, PreVal.DelegatingStake.Rules.Withdrawal)
C22_AfterTrialReached ==
  /\ WithdrawalCall /\ last.err = ErrNone /\ ~Insufficient(PreVal)
  /\ PreVal.DelegatingStake # Nil /\ ~TrialNow(PreVal)
  /\ ~InList(last.from, PreVal.DelegatingStake.TrialRules.Withdrawal)
C22_DefaultReached ==
  /\ WithdrawalCall /\ last.err = ErrNone /\ ~Insufficient(PreVal)
  /\ PreVal.DelegatingStake = Nil /\ last.from = PreVal.WithdrawalAddress
C22_DefaultRefusedReached ==
  /\ WithdrawalReachesAuth /\ ~Insufficient(PreVal) /\ PreVal.DelegatingStake = Nil
  /\ last.from \in DOMAIN PreVal.Stake /\ last.err = ErrInvalidFromAddresses

\* the ledger with amt taken from the entry of a, the entry evicted at zero
ReducedLedger(ledger, a, amt) ==
  IF ledger[a] - amt = 0 THEN [x \in (DOMAIN ledger) \ {a} |-> ledger[x]]
  ELSE [ledger EXCEPT ![a] = @ - amt]
WithdrawalRefundSucceeded == WithdrawalCall /\ last.err = ErrNone /\ Insufficient(PreVal)
\* the amount a refund request withdraws: amount 0 is the whole entry
RefundAmount == IF last.op.Amount = 0 THEN PreVal.Stake[last.from] ELSE last.op.Amount
\* the amount an UpdateBalance refund takes: at most the entry
ConfirmedAmount ==
  Min(last.op.Amount, SyncPreVal.Stake[InitTxFrom])

\* C23 as stated: on the refund path the Withdrawal operation reduces the
\* sender's ledger entry (evicting it at zero) only once the op-tracking
\* fork is active at the current slot; before it the Withdrawal leaves the
\* ledger unchanged and the UpdateBalance confirmation reduces it.
C23_AsStated ==
  /\ WithdrawalRefundSucceeded =>
       PostVal.Stake = IF IsForkSlotValOpTracking(slot)
                       THEN ReducedLedger(PreVal.Stake, last.from, RefundAmount)
                       ELSE PreVal.Stake
  /\ (OnRefundPath /\ ~IsForkSlotValOpTracking(slot)) =>
       SyncPostVal.Stake = ReducedLedger(SyncPreVal.Stake, InitTxFrom, ConfirmedAmount)
\* C23, what the code does: the Withdrawal operation reduces the ledger
\* entry (evicting it at zero) only while the op-tracking fork is NOT yet
\* active at the current slot; once the fork is active the Withdrawal
\* leaves the ledger unchanged and the UpdateBalance confirmation reduces
\* the entry (by at most its amount); before the fork UpdateBalance leaves
\* the ledger unchanged.
C23_RefundLedger ==
  /\ WithdrawalRefundSucceeded =>
       PostVal.Stake = IF IsForkSlotValOpTracking(slot)
                       THEN PreVal.Stake
                       ELSE ReducedLedger(PreVal.Stake, last.from, RefundAmount)
  /\ OnRefundPath =>
       SyncPostVal.Stake = IF IsForkSlotValOpTracking(slot)
                           THEN ReducedLedger(SyncPreVal.Stake, InitTxFrom, ConfirmedAmount)
                           ELSE SyncPreVal.Stake
\* with the fork active the Withdrawal leaves the entry it refunds from
C23_Witness ==
  /\ WithdrawalRefundSucceeded /\ IsForkSlotValOpTracking(slot)
  /\ RefundAmount > 0 /\ PostVal.Stake = PreVal.Stake
C23_BeforeForkReached ==
  /\ WithdrawalRefundSucceeded /\ ~IsForkSlotValOpTracking(slot)
  /\ last.from \in DOMAIN PostVal.Stake
  /\ PostVal.Stake[last.from] = PreVal.Stake[last.from] - last.op.Amount
  /\ last.op.Amount > 0
C23_ConfirmedAfterForkReached ==
  /\ OnRefundPath /\ IsForkSlotValOpTracking(slot) /\ last.op.Amount > 0
  /\ InitTxFrom \in DOMAIN SyncPostVal.Stake
  /\ SyncPostVal.Stake[InitTxFrom] = SyncPreVal.Stake[InitTxFrom] - last.op.Amount
C23_ConfirmedBeforeForkReached ==
  /\ OnRefundPath /\ ~IsForkSlotValOpTracking(slot) /\ last.op.Amount > 0
  /\ SyncPostVal.Stake = SyncPreVal.Stake
C23_CappedReached ==
  /\ OnRefundPath /\ IsForkSlotValOpTracking(slot)
  /\ last.op.Amount > SyncPreVal.Stake[InitTxFrom]
  /\ InitTxFrom \notin DOMAIN SyncPostVal.Stake

\* ------------------------------------------------ trial period
\* One delegating validator through its life: deposit, activation, requests
\* and balance updates during and after the trial, deactivation.
T_Deposits == { Req("a2", ValidatorsStateAddress, EffectiveBalance, DelegatingDeposit) }
T_Exits ==
  { Req(f, ValidatorsStateAddress, 0, ExitOp("pk2", "a2", NilAmt)) : f \in {"a2", "a3"} }
T_Withdrawals ==
  { Req(f, ValidatorsStateAddress, 0, WithdrawalOp("a2", 5)) : f \in {"a2", "a3"} }
T_Ops ==
  { SyncOp(ActivateCode, "a2", 0, 0, NilAmt, NilAmt, 1) }
  \cup { SyncOp(DeactivateCode, "a2", e, 0, NilAmt, NilAmt, SlashHash("a2")) : e \in {2, 4} }
  \cup { SyncOp(UpdateBalanceCode, "a2", 0, 0, 100, EffectiveBalance, h) : h \in 2..MaxTx }
T_Syncs == { SyncIn(op, TRUE, FALSE) : op \in T_Ops }
T_Deposit == DepositStep(T_Deposits)
T_Exit == ExitStep(T_Exits)
T_Withdrawal == WithdrawalStep(T_Withdrawals)
T_Sync == SyncStep(T_Syncs)
T_EndTx == EndTxStep({"ok"})
T_NextBlock == NextBlockStep({2, 4, 6, 7, 8})
NextT == T_Deposit \/ T_Exit \/ T_Withdrawal \/ T_Sync \/ T_EndTx \/ T_NextBlock
SpecT == Init /\ [][NextT]_vars

Delegating(v) == v # Nil /\ v.DelegatingStake # Nil
\* the three cases of the trial period
NotYetActivated(v) == v.ActivationEra > CurrentEra
EndTrialSlot(v) == EraStartSlot(v.ActivationEra) + v.DelegatingStake.TrialPeriod
WithinTrial(v) == slot <= EndTrialSlot(v)
ExitedInTrial(v) == v.ExitEra <= CurrentEra /\ EraStartSlot(v.ExitEra) <= EndTrialSlot(v)

\* C24: isValidatorTrialPeriod answers true exactly when the validator is
\* not yet activated (ActivationEra after the current era), or the current
\* slot is not past activationSlot + TrialPeriod, or its ExitEra is not
\* after the current era and starts not past activationSlot + TrialPeriod;
\* Exit, Withdrawal and UpdateBalance apply TrialRules exactly then and
\* Rules otherwise.
C24_TrialPeriod ==
  /\ \A a \in Addr : Delegating(st.validators[a]) =>
       (isValidatorTrialPeriod(Ctx(Nil, FALSE), st.validators[a])
          <=> (NotYetActivated(st.validators[a]) \/ WithinTrial(st.validators[a])
               \/ ExitedInTrial(st.validators[a])))
  /\ (ExitCall /\ last.err = ErrNone /\ Delegating(PreVal)) =>
       InList(last.from, RulesNow(PreVal).Exit)
  /\ (WithdrawalCall /\ last.err = ErrNone /\ Delegating(PreVal) /\ ~Insufficient(PreVal)) =>
       InList(last.from, RulesNow(PreVal).Withdrawal)
  /\ OnDelegatingPath =>
       \A a \in Addr :
         Credited(a) = PortionCredit(ProfitPortion, RulesNow(SyncPreVal).ProfitShare, a)
                       + PortionCredit(StakePortion, RulesNow(SyncPreVal).StakeShare, a)
\* past the end of the trial, a validator that exited by then is still on trial rules
C24_Witness ==
  /\ WithdrawalCall /\ last.err = ErrNone /\ Delegating(PreVal)
  /\ ~NotYetActivated(PreVal) /\ ~WithinTrial(PreVal) /\ ExitedInTrial(PreVal)
  /\ InList(last.from, PreVal.DelegatingStake.TrialRules.Withdrawal)
  /\ ~InList(last.from, PreVal.DelegatingStake.Rules.Withdrawal)
C24_ExitedLaterReached ==
  /\ WithdrawalCall /\ last.err = ErrNone /\ Delegating(PreVal)
  /\ PreVal.ExitEra <= CurrentEra /\ ~ExitedInTrial(PreVal) /\ ~WithinTrial(PreVal)
  /\ ~InList(last.from, PreVal.DelegatingStake.TrialRules.Withdrawal)
C24_NotActivatedReached ==
  /\ WithdrawalCall /\ last.err = ErrNone /\ Delegating(PreVal)
  /\ PreVal.ActivationEra # MaxUint64 /\ NotYetActivated(PreVal)
C24_WithinTrialReached ==
  /\ ExitCall /\ last.err = ErrNone /\ Delegating(PreVal)
  /\ ~NotYetActivated(PreVal) /\ WithinTrial(PreVal) /\ slot = EndTrialSlot(PreVal)
C24_ExitAfterTrialReached ==
  /\ ExitCall /\ last.err = ErrNone /\ Delegating(PreVal) /\ ~TrialNow(PreVal)
C24_UpdateTrialReached ==
  /\ OnDelegatingPath /\ TrialNow(SyncPreVal) /\ Credited("a2") = 100
C24_UpdateAfterTrialReached ==
  /\ OnDelegatingPath /\ ~TrialNow(SyncPreVal) /\ Credited("a3") = 60

\* ------------------------------------------------ validation of delegating rules
\* Deposits of a delegating validator carrying every combination of share
\* maps and role lists of the validation test.
NoShares == [a \in {} |-> 0]
R_ProfitShares == { NoShares, [a \in {"a1", "a2"} |-> IF a = "a1" THEN 10 ELSE 30],
                    Rules1.ProfitShare }
R_StakeShares == { NoShares, [a \in {"a1", "a2"} |-> 60], Rules1.StakeShare }
R_Roles == { << >>, <<"a3">> }
R_Rules ==
  { [ProfitShare |-> p, StakeShare |-> s, Exit |-> e, Withdrawal |-> w] :
      p \in R_ProfitShares, s \in R_StakeShares, e \in R_Roles, w \in R_Roles }
R_Deposits ==
  { Req("a2", ValidatorsStateAddress, EffectiveBalance,
        DepositOp("pk2", "a2", "a3", [Rules |-> r, TrialPeriod |-> 2, TrialRules |-> Rules2], TRUE)) :
      r \in R_Rules }
R_Deposit == DepositStep(R_Deposits)
R_EndTx == EndTxStep({"ok"})
R_NextBlock == NextBlockStep({1, 2, 3})
NextR == R_Deposit \/ R_EndTx \/ R_NextBlock
SpecR == Init /\ [][NextR]_vars

DepositCall == last.kind = "Deposit"
ProfitOk(r) == SumShares(r.ProfitShare, DOMAIN r.ProfitShare) = 100
StakeOk(r) == SumShares(r.StakeShare, DOMAIN r.StakeShare) = 100
ExitOk(r) == r.Exit # << >>
WithdrawalOk(r) == r.Withdrawal # << >>
\* the rules carried by the last Deposit, and the checks the Deposit runs first
LastRules == last.op.DelegatingStake.Rules
RulesReached ==
  /\ DepositCall /\ WellAddressed /\ last.op.sigOk /\ last.op.DelegatingStake # Nil
  /\ last.value # NilAmt /\ last.value >= MinDepositVal /\ BnCanCastToUint64Gwei(last.value)
  /\ pre.balances[last.from] >= last.value /\ IsForkSlotDelegate(slot)

\* C25: DelegatingStakeRules.Validate succeeds exactly when the profit
\* shares sum to 100, the stake shares sum to 100, and the exit and
\* withdrawal lists are not empty; with exactly one condition violated it
\* returns ErrBadProfitShare, ErrBadStakeShare, ErrNoExitRoles or
\* ErrNoWithdrawalRoles for that condition; a Deposit whose rules fail
\* Validate is rejected with Validate's error (once the checks of address,
\* signature, value, balance and delegate fork that come first pass).
C25_RulesValidated ==
  (DepositCall /\ last.op.DelegatingStake # Nil) =>
    /\ RulesValidate(LastRules) = ErrNone
          <=> (ProfitOk(LastRules) /\ StakeOk(LastRules) /\ ExitOk(LastRules)
               /\ WithdrawalOk(LastRules))
    /\ (~ProfitOk(LastRules) /\ StakeOk(LastRules) /\ ExitOk(LastRules) /\ WithdrawalOk(LastRules))
          => RulesValidate(LastRules) = "ErrBadProfitShare"
    /\ (ProfitOk(LastRules) /\ ~StakeOk(LastRules) /\ ExitOk(LastRules) /\ WithdrawalOk(LastRules))
          => RulesValidate(LastRules) = "ErrBadStakeShare"
    /\ (ProfitOk(LastRules) /\ StakeOk(LastRules) /\ ~ExitOk(LastRules) /\ WithdrawalOk(LastRules))
          => RulesValidate(LastRules) = "ErrNoExitRoles"
    /\ (ProfitOk(LastRules) /\ StakeOk(LastRules) /\ ExitOk(LastRules) /\ ~WithdrawalOk(LastRules))
          => RulesValidate(LastRules) = "ErrNoWithdrawalRoles"
    /\ (RulesReached /\ RulesValidate(LastRules) # ErrNone)
          => (last.err = RulesValidate(LastRules) /\ st.validators = pre.validators
              /\ st.balances = pre.balances /\ st.depositCount = pre.depositCount)
    /\ (RulesReached /\ ~WithdrawalOk(LastRules)) => last.err # ErrNone
C25_Witness ==
  /\ RulesReached /\ last.err = "ErrNoWithdrawalRoles"
  /\ ProfitOk(LastRules) /\ StakeOk(LastRules) /\ ExitOk(LastRules) /\ ~WithdrawalOk(LastRules)
C25_BadProfitReached ==
  /\ RulesReached /\ last.err = "ErrBadProfitShare" /\ LastRules.ProfitShare # NoShares
  /\ StakeOk(LastRules) /\ ExitOk(LastRules) /\ WithdrawalOk(LastRules)
C25_NoProfitReached ==
  /\ RulesReached /\ last.err = "ErrBadProfitShare" /\ LastRules.ProfitShare = NoShares
C25_BadStakeReached ==
  /\ RulesReached /\ last.err = "ErrBadStakeShare" /\ ProfitOk(LastRules)
  /\ SumShares(LastRules.StakeShare, DOMAIN LastRules.StakeShare) = 120
C25_NoExitReached ==
  /\ RulesReached /\ last.err = "ErrNoExitRoles" /\ WithdrawalOk(LastRules)
C25_AcceptedReached ==
  /\ RulesReached /\ last.err = ErrNone /\ RulesValidate(LastRules) = ErrNone
  /\ PostVal.DelegatingStake.Rules = LastRules
C25_SeveralViolatedReached ==
  /\ RulesReached /\ last.err # ErrNone /\ ~ProfitOk(LastRules) /\ ~ExitOk(LastRules)

\* ------------------------------------------------ version of the stored record
\* The operations under a chain configuration whose delegate fork is active
\* from the first slot, before the operation-tracking fork.
InitEarlyDelegate == InitWith(0)
SpecK == InitEarlyDelegate /\ [][Next]_vars

\* the creator the last call was about, and its record before and after
Affected == IF last.kind = "Sync" THEN last.op.Creator ELSE last.op.CreatorAddress
AffectedPre == pre.validators[Affected]
AffectedPost == st.validators[Affected]
MutationSucceeded == last.kind \in {"Deposit", "Exit", "Withdrawal", "Sync"} /\ last.err = ErrNone

\* C26: after a successful Deposit, Exit, Withdrawal, Activate, Deactivate
\* or UpdateBalance at a slot where the operation-tracking fork is active the
\* stored record of its validator has version Ver1; and, slots never
\* decreasing, no call takes a stored record from Ver1 back to unversioned.
C26_AsStated ==
  /\ (MutationSucceeded /\ IsForkSlotValOpTracking(slot)) =>
       (AffectedPost # Nil /\ AffectedPost.Ver = Ver1)
  /\ \A a \in Addr :
       (pre.validators[a] # Nil /\ pre.validators[a].Ver = Ver1) =>
         (st.validators[a] # Nil /\ st.validators[a].Ver = Ver1)
\* What holds: a successful operation that stores the record stores it
\* with the version of its slot; UpdateBalance on the delegating path
\* distributes the amount and leaves the stored record as it was.
StoresRecord == MutationSucceeded /\ ~OnDelegatingPath
C26_VersionWhereStored ==
  /\ (StoresRecord /\ IsForkSlotValOpTracking(slot)) =>
       (AffectedPost # Nil /\ AffectedPost.Ver = Ver1)
  /\ OnDelegatingPath => AffectedPost = AffectedPre
  /\ \A a \in Addr :
       (pre.validators[a] # Nil /\ pre.validators[a].Ver = Ver1) =>
         (st.validators[a] # Nil /\ st.validators[a].Ver = Ver1)
\* a delegating record older than the fork keeps no version after UpdateBalance
C26_StaleVersionReached ==
  /\ OnDelegatingPath /\ IsForkSlotValOpTracking(slot)
  /\ AffectedPre.Ver = NoVer /\ AffectedPost.Ver = NoVer
\* a record stored without version before the fork is upgraded by a request after it
C26_Witness ==
  /\ MutationSucceeded /\ last.kind = "Withdrawal" /\ IsForkSlotValOpTracking(slot)
  /\ AffectedPre # Nil /\ AffectedPre.Ver = NoVer /\ AffectedPost.Ver = Ver1
C26_UnversionedReached ==
  /\ MutationSucceeded /\ ~IsForkSlotValOpTracking(slot) /\ AffectedPost.Ver = NoVer
C26_DepositReached ==
  /\ MutationSucceeded /\ last.kind = "Deposit" /\ IsForkSlotValOpTracking(slot)
  /\ AffectedPre # Nil /\ AffectedPre.Ver = NoVer /\ AffectedPost.Ver = Ver1
C26_ExitReached ==
  /\ MutationSucceeded /\ last.kind = "Exit" /\ AffectedPre.Ver = NoVer /\ AffectedPost.Ver = Ver1
C26_ActivateReached ==
  /\ ActivateSucceeded /\ AffectedPre.Ver = NoVer /\ AffectedPost.Ver = Ver1
C26_DeactivateReached ==
  /\ DeactivateSucceeded /\ IsForkSlotValOpTracking(slot) /\ AffectedPost.Ver = Ver1
C26_UpdateBalanceReached ==
  /\ UpdateBalanceSucceeded /\ AffectedPre.Ver = NoVer /\ AffectedPost.Ver = Ver1
C26_DelegatingUpdateReached ==
  /\ OnDelegatingPath /\ IsForkSlotValOpTracking(slot) /\ AffectedPost = AffectedPre

\* ------------------------------------------------ rejected sync operations
\* The sync operations of one validator, and slashing-initiated ones for a
\* creator that never deposited.
J_Ops ==
  S_Ops
  \cup { SyncOp(code, "a2", 6, 0, NilAmt, NilAmt, SlashHash("a2")) :
           code \in {ActivateCode, DeactivateCode} }
J_Syncs == { SyncIn(op, m, pf) : op \in J_Ops, m \in BOOLEAN, pf \in BOOLEAN }
J_Sync == SyncStep(J_Syncs)
NextJ == S_Deposit \/ S_Exit \/ J_Sync \/ S_EndTx \/ S_NextBlock
SpecJ == Init /\ [][NextJ]_vars

\* the last call was a sync op of the given code that passed ValidateValidatorSyncOp
SyncValidated(code) ==
  /\ last.kind = "Sync" /\ last.op.OpCode = code
  /\ ValidateValidatorSyncOp(Ctx(last.saved, last.packFails), last.op, slot, last.tx) = ErrNone

\* C27: an Activate (that passed the validation of the sync op) for a
\* validator that is already activated is rejected with
\* ErrValidatorActivated when the operation-tracking fork is active, and
\* ActivationEra, Index and the validator index list stay as they were; an
\* Activate for a creator without record is rejected with ErrUnknownValidator.
C27_ActivateRejections ==
  SyncValidated(ActivateCode) =>
    /\ SyncPreVal = Nil => (last.err = ErrUnknownValidator /\ SyncPostVal = Nil)
    /\ (SyncPreVal # Nil /\ SyncPreVal.ActivationEra # MaxUint64
         /\ IsForkSlotValOpTracking(slot)) =>
          /\ last.err = ErrValidatorActivated
          /\ SyncPostVal.ActivationEra = SyncPreVal.ActivationEra
          /\ SyncPostVal.Index = SyncPreVal.Index
          /\ st.valList = pre.valList
C27_Witness ==
  /\ SyncValidated(ActivateCode) /\ last.err = ErrValidatorActivated
  /\ SyncPreVal.ActivationEra # ActivationEraOf(Ctx(Nil, FALSE), last.op)
  /\ SyncPreVal.Index # last.op.Index
  /\ SyncPostVal = SyncPreVal
C27_UnknownReached ==
  /\ SyncValidated(ActivateCode) /\ last.err = ErrUnknownValidator /\ SyncPreVal = Nil
C27_BeforeForkReached ==
  /\ SyncValidated(ActivateCode) /\ last.err = ErrNone /\ ~IsForkSlotValOpTracking(slot)
  /\ SyncPreVal.ActivationEra # MaxUint64
C27_FirstActivationReached ==
  /\ SyncValidated(ActivateCode) /\ last.err = ErrNone /\ IsForkSlotValOpTracking(slot)
  /\ SyncPreVal.ActivationEra = MaxUint64

\* the rejection of a Deactivate, by the order of its checks
DeactivateRejection ==
  IF SyncPreVal = Nil THEN ErrUnknownValidator
  ELSE IF SyncPreVal.ExitEra # MaxUint64 THEN ErrValidatorIsOut
  ELSE IF ~(SyncPreVal.ActivationEra < EffectiveEra) THEN ErrNotActivatedValidator
  ELSE ErrNone

\* C28: a Deactivate (that passed the validation of the sync op) is
\* rejected with ErrUnknownValidator when the creator has no record, with
\* ErrValidatorIsOut when ExitEra is set, with ErrNotActivatedValidator
\* when ActivationEra is not strictly before the effective era (the era of
\* the op's epoch, or the context era once the sync-processing fork is
\* active), a never-activated validator included; on each rejection
\* ExitEra and the pending exit tx stay as they were.
C28_DeactivateRejections ==
  SyncValidated(DeactivateCode) =>
    /\ DeactivateRejection # ErrNone =>
         /\ last.err = DeactivateRejection
         /\ SyncPostVal = SyncPreVal
    /\ DeactivateRejection = ErrNone => last.err \in {ErrNone, ErrPackLogData}
    /\ (SyncPreVal # Nil /\ last.err # ErrNone) =>
         /\ SyncPostVal.ExitEra = SyncPreVal.ExitEra
         /\ SyncPostVal.ExitTx = SyncPreVal.ExitTx
C28_Witness ==
  /\ SyncValidated(DeactivateCode) /\ last.err = ErrNotActivatedValidator
  /\ SyncPreVal.ActivationEra # MaxUint64 /\ SyncPreVal.ActivationEra = EffectiveEra
  /\ SyncPreVal.ExitTx # NoTx /\ SyncPostVal.ExitTx = SyncPreVal.ExitTx
C28_UnknownReached ==
  /\ SyncValidated(DeactivateCode) /\ last.err = ErrUnknownValidator /\ SyncPreVal = Nil
C28_IsOutReached ==
  /\ SyncValidated(DeactivateCode) /\ last.err = ErrValidatorIsOut
  /\ SyncPreVal.ActivationEra < EffectiveEra
C28_NeverActivatedReached ==
  /\ SyncValidated(DeactivateCode) /\ last.err = ErrNotActivatedValidator
  /\ SyncPreVal.ActivationEra = MaxUint64
C28_ContextEraReached ==
  /\ SyncValidated(DeactivateCode) /\ last.err = ErrNotActivatedValidator
  /\ IsForkSlotValSyncProc(slot) /\ SyncPreVal.ActivationEra < ProcEra
C28_AcceptedReached ==
  /\ SyncValidated(DeactivateCode) /\ last.err = ErrNone
  /\ SyncPreVal.ExitTx # NoTx /\ SyncPostVal.ExitTx = NoTx
C28_PackFailedReached ==
  /\ SyncValidated(DeactivateCode) /\ last.err = ErrPackLogData /\ SyncPostVal = SyncPreVal

\* ------------------------------------------------ target address
\* a sync op in a transaction sent to the address the input names
AddressedSyncStep(Inputs) ==
  /\ Idle
  /\ \E i \in Inputs :
       CallStep("Sync", Coordinator, i.to, 0, i.op,
                IF i.matching THEN SavedOf(i.op) ELSE Nil, i.packFails, SyncTxHash)

\* Every operation, sent to the validators-state address and to another one.
Targets == {ValidatorsStateAddress, OtherAddress}
G_Deposits == { Req("a1", to, EffectiveBalance, PlainDeposit) : to \in Targets }
G_Exits == { Req("a3", to, 0, ExitOp("pk1", "a1", NilAmt)) : to \in Targets }
G_Withdrawals == { Req("a3", to, 0, WithdrawalOp("a1", 5)) : to \in Targets }
G_Ops ==
  { SyncOp(ActivateCode, "a1", 0, 0, NilAmt, NilAmt, 1),
    SyncOp(DeactivateCode, "a1", 6, 0, NilAmt, NilAmt, SlashHash("a1")) }
  \cup { SyncOp(UpdateBalanceCode, "a1", 0, 0, 5, InitBalance, h) : h \in 2..MaxTx }
G_Syncs ==
  { [op |-> op, to |-> to, matching |-> TRUE, packFails |-> FALSE] : op \in G_Ops, to \in Targets }
G_Deposit == DepositStep(G_Deposits)
G_Exit == ExitStep(G_Exits)
G_Withdrawal == WithdrawalStep(G_Withdrawals)
G_Sync == AddressedSyncStep(G_Syncs)
G_EndTx == EndTxStep({"ok"})
G_NextBlock == NextBlockStep({1, 4, 6})
NextG == G_Deposit \/ G_Exit \/ G_Withdrawal \/ G_Sync \/ G_EndTx \/ G_NextBlock
SpecG == Init /\ [][NextG]_vars

Misaddressed == last.kind # "none" /\ last.toAddr # ValidatorsStateAddress
RecordsAndBalancesKept == st.validators = pre.validators /\ st.balances = pre.balances
\* the outcome of the last call, had it been sent to the validators-state address
AddressedCall ==
  Call(pre, CtxIn(last.saved, last.packFails, last.iter), last.from, ValidatorsStateAddress,
       last.value, last.op, last.tx)

\* C29: every operation dispatched through Call (Deposit, Exit, Withdrawal
\* and each ValidatorSync variant) whose target address is not the
\* validators-state address is rejected with ErrInvalidToAddress and
\* changes no validator record and no balance.
C29_AsStated ==
  Misaddressed => (last.err = ErrInvalidToAddress /\ RecordsAndBalancesKept)
\* What holds: the three requests are rejected so; a sync op is processed
\* whatever address its transaction was sent to.
C29_RequestsAddressed ==
  /\ (Misaddressed /\ last.kind # "Sync") =>
       (last.err = ErrInvalidToAddress /\ RecordsAndBalancesKept)
  /\ last.kind = "Sync" =>
       (last.err # ErrInvalidToAddress /\ last.err = AddressedCall.err /\ st = AddressedCall.s)
C29_Witness ==
  /\ Misaddressed /\ last.kind = "Withdrawal" /\ last.err = ErrInvalidToAddress
  /\ AddressedCall.err = ErrNone
C29_DepositReached ==
  /\ Misaddressed /\ last.kind = "Deposit" /\ AddressedCall.err = ErrNone
C29_ExitReached ==
  /\ Misaddressed /\ last.kind = "Exit" /\ AddressedCall.err = ErrNone
C29_ActivateReached ==
  /\ Misaddressed /\ ActivateSucceeded /\ SyncPostVal.ActivationEra # SyncPreVal.ActivationEra
C29_DeactivateReached ==
  /\ Misaddressed /\ DeactivateSucceeded /\ SyncPostVal.ExitEra # SyncPreVal.ExitEra
C29_UpdateBalanceReached ==
  /\ Misaddressed /\ UpdateBalanceSucceeded /\ st.balances # pre.balances

\* ------------------------------------------------ log entries
\* the entries the last call appended to the logs of the state
LogsKept == st.logs = pre.logs
LogsExtended ==
  /\ Len(st.logs) >= Len(pre.logs)
  /\ \A i \in 1..Len(pre.logs) : st.logs[i] = pre.logs[i]
NewLogs == { st.logs[i] : i \in (Len(pre.logs) + 1)..Len(st.logs) }
LoggedAtStateAddress ==
  /\ LogsExtended /\ NewLogs # {}
  /\ \A l \in NewLogs : l.Address = ValidatorsStateAddress

\* C30: every successful Deposit, Exit, Withdrawal, Activate, Deactivate
\* or UpdateBalance appends at least one log entry at the validators-state
\* address, and an operation that returns an error leaves no log entry.
C30_AsStated ==
  /\ MutationSucceeded => LoggedAtStateAddress
  /\ CallFailed => LogsKept
\* What holds: Deposit, Exit and Withdrawal always log; Activate, Deactivate
\* and UpdateBalance log at the slots where the delegate fork is active and
\* append nothing before it; a failed operation leaves the logs as they were.
C30_LogsByFork ==
  /\ (MutationSucceeded /\ (last.kind # "Sync" \/ IsForkSlotDelegate(slot))) =>
       LoggedAtStateAddress
  /\ (MutationSucceeded /\ last.kind = "Sync" /\ ~IsForkSlotDelegate(slot)) => LogsKept
  /\ CallFailed => LogsKept
C30_Witness ==
  /\ DeactivateSucceeded /\ IsForkSlotDelegate(slot) /\ LoggedAtStateAddress
  /\ LastLog.Evt = "Deactivate" /\ pre.logs # << >>
C30_SilentActivateReached ==
  /\ ActivateSucceeded /\ ~IsForkSlotDelegate(slot) /\ LogsKept
  /\ st.validators # pre.validators
C30_SilentUpdateBalanceReached ==
  /\ UpdateBalanceSucceeded /\ ~IsForkSlotDelegate(slot) /\ LogsKept
  /\ st.balances # pre.balances
C30_ActivateLoggedReached ==
  /\ ActivateSucceeded /\ LoggedAtStateAddress /\ LastLog.Evt = "Activate"
C30_UpdateBalanceLoggedReached ==
  /\ UpdateBalanceSucceeded /\ ~OnDelegatingPath /\ LoggedAtStateAddress
  /\ LastLog.Evt = "UpdateBalance"
C30_TwoEntriesReached ==
  /\ OnDelegatingPath /\ Cardinality(NewLogs) = 2
C30_RequestsLoggedReached ==
  /\ MutationSucceeded /\ last.kind = "Withdrawal" /\ ~IsForkSlotDelegate(slot)
  /\ LoggedAtStateAddress
C30_FailedAfterMutationReached ==
  /\ CallFailed /\ last.err = ErrPackLogData /\ LogsKept /\ pre.logs # << >>

\* ------------------------------------------------ guards of UpdateBalance
\* the last call was an UpdateBalance that passed the validation of the sync
\* op and found a record of version Ver1
UpdateBalanceOnVer1 ==
  /\ SyncValidated(UpdateBalanceCode) /\ SyncPreVal # Nil /\ SyncPreVal.Ver = Ver1
NoPendingWithdrawal == UpdateBalanceOnVer1 /\ SyncPreVal.WithdrawalTx = NoTx
OtherPendingWithdrawal ==
  /\ UpdateBalanceOnVer1 /\ SyncPreVal.WithdrawalTx # NoTx
  /\ SyncPreVal.WithdrawalTx # last.op.InitTxHash
\* the slot the quick check looks at
CheckSlot == IF slot > ValidatorOpExpireSlots THEN slot - ValidatorOpExpireSlots ELSE 0
InitTxReported == InitTxKnown /\ InitTx.rc # "none"
InitTxSucceeded == InitTxKnown /\ InitTx.rc = "ok"
\* both the quick check and the initiating tx lie before the fork
Grandfathered ==
  /\ ~IsForkSlotValOpTracking(CheckSlot)
  /\ InitTxSucceeded /\ ~IsForkSlotValOpTracking(InitTx.slot)

\* C31 as stated: on a Ver1 record, UpdateBalance is rejected with
\* ErrValOpBlocked when the pending withdrawal tx is another one, has a
\* successful receipt and has not expired; without pending withdrawal tx it
\* is rejected with ErrNoActiveWithdrawalOp unless the quick-check slot and
\* the slot of the initiating tx lie before the operation-tracking fork and
\* the initiating tx has a successful receipt.
C31_AsStated ==
  /\ (OtherPendingWithdrawal /\ InWindow(SyncPreVal.WithdrawalTx)) => last.err = ErrValOpBlocked
  /\ (NoPendingWithdrawal /\ ~Grandfathered) => last.err = ErrNoActiveWithdrawalOp
\* What holds: without pending withdrawal tx the error is
\* ErrNoActiveWithdrawalOp when the quick-check slot or the slot of the
\* successful initiating tx is at or after the fork; an initiating tx
\* without receipt, the quick-check slot being before the fork, is rejected
\* with the error of the missing receipt.
C31_UpdateBalanceGuards ==
  /\ (OtherPendingWithdrawal /\ InWindow(SyncPreVal.WithdrawalTx)) =>
       (last.err = ErrValOpBlocked /\ SyncPostVal = SyncPreVal)
  /\ (NoPendingWithdrawal /\ IsForkSlotValOpTracking(CheckSlot)) =>
       last.err = ErrNoActiveWithdrawalOp
  /\ (NoPendingWithdrawal /\ ~IsForkSlotValOpTracking(CheckSlot) /\ ~InitTxReported) =>
       last.err = "initTx receipt not found"
  /\ (NoPendingWithdrawal /\ ~IsForkSlotValOpTracking(CheckSlot) /\ InitTxSucceeded
      /\ IsForkSlotValOpTracking(InitTx.slot)) => last.err = ErrNoActiveWithdrawalOp
  /\ (NoPendingWithdrawal /\ ~Grandfathered) =>
       (last.err \in UpdateBalanceCheckErrs /\ SyncPostVal = SyncPreVal
        /\ st.balances = pre.balances)
  /\ (NoPendingWithdrawal /\ Grandfathered) => last.err \notin UpdateBalanceCheckErrs
C31_Witness ==
  /\ NoPendingWithdrawal /\ ~IsForkSlotValOpTracking(CheckSlot) /\ InitTxSucceeded
  /\ IsForkSlotValOpTracking(InitTx.slot) /\ last.err = ErrNoActiveWithdrawalOp
C31_BlockedReached ==
  /\ OtherPendingWithdrawal /\ InWindow(SyncPreVal.WithdrawalTx) /\ last.err = ErrValOpBlocked
C31_ExpiredReached ==
  /\ OtherPendingWithdrawal /\ ~InWindow(SyncPreVal.WithdrawalTx) /\ last.err = ErrNone
C31_QuickCheckReached ==
  /\ NoPendingWithdrawal /\ IsForkSlotValOpTracking(CheckSlot)
  /\ InitTxSucceeded /\ ~IsForkSlotValOpTracking(InitTx.slot)
  /\ last.err = ErrNoActiveWithdrawalOp
C31_NoReceiptReached ==
  /\ NoPendingWithdrawal /\ ~IsForkSlotValOpTracking(CheckSlot) /\ ~InitTxReported
  /\ last.err = "initTx receipt not found"
C31_GrandfatheredReached ==
  /\ NoPendingWithdrawal /\ Grandfathered /\ last.err = ErrNone
C31_UnversionedReached ==
  /\ SyncValidated(UpdateBalanceCode) /\ SyncPreVal # Nil /\ SyncPreVal.Ver = NoVer
  /\ SyncPreVal.WithdrawalTx = NoTx /\ IsForkSlotValOpTracking(slot) /\ last.err = ErrNone

\* ------------------------------------------------ nonce of the caller
\* a message whose data does not decode to an operation
Undecodable == [OpCode |-> "undecodable"]
MessageStep(Inputs) ==
  /\ last.kind = "none"
  /\ \E i \in Inputs :
       CallStep("Message", i.from, i.to, i.value, i.op, Nil, FALSE, Len(txs) + 1)

\* Every operation, well and badly addressed, and messages that do not decode.
N_Messages == { Req(f, ValidatorsStateAddress, 0, Undecodable) : f \in {"a1", "a3"} }
N_Message == MessageStep(N_Messages)
NextN == G_Deposit \/ G_Exit \/ G_Withdrawal \/ G_Sync \/ N_Message \/ G_EndTx \/ G_NextBlock
SpecN == Init /\ [][NextN]_vars

Decoded == last.kind \in {"Deposit", "Exit", "Withdrawal", "Sync"}
NonceIncremented ==
  st.nonces = [pre.nonces EXCEPT ![last.from] = pre.nonces[last.from] + 1]

\* C32: Call increments the nonce of the caller by exactly one for every
\* message whose data decodes to an operation, whether the operation
\* succeeds or fails, and leaves every nonce as it was when the data does
\* not decode.
C32_NonceOfCaller ==
  /\ Decoded => NonceIncremented
  /\ last.kind = "Message" => (last.err # ErrNone /\ st = pre)
C32_Witness ==
  /\ Decoded /\ last.err # ErrNone /\ NonceIncremented /\ pre.nonces[last.from] > 0
  /\ RecordsAndBalancesKept
C32_SucceededReached ==
  /\ Decoded /\ last.err = ErrNone /\ NonceIncremented /\ st.validators # pre.validators
C32_SyncFailedReached ==
  /\ last.kind = "Sync" /\ last.err # ErrNone /\ st.nonces[Coordinator] = pre.nonces[Coordinator] + 1
C32_UndecodableReached ==
  /\ last.kind = "Message" /\ st.nonces = pre.nonces /\ pre.nonces[last.from] > 0

\* ------------------------------------------------ refund of an insufficient deposit
\* the amount an address holds in a ledger, zero without entry
Held(v, a) == IF a \in DOMAIN v.Stake THEN v.Stake[a] ELSE 0
\* what the last UpdateBalance took from the entry of the initiating sender
Subtracted == Held(SyncPreVal, InitTxFrom) - Held(SyncPostVal, InitTxFrom)

\* C33 as stated: on the refund path of UpdateBalance the amount credited
\* to the sender of the initiating withdrawal tx never exceeds the stake the
\* sender holds in the ledger before the operation; with the
\* operation-tracking fork active the credited amount equals the amount
\* subtracted from the sender's entry.
C33_AsStated ==
  OnRefundPath =>
    /\ Credited(InitTxFrom) <= Held(SyncPreVal, InitTxFrom)
    /\ IsForkSlotValOpTracking(slot) => Credited(InitTxFrom) = Subtracted
\* What holds: the sender is credited op.Amount whatever it holds; with the
\* fork active the entry loses op.Amount capped at the entry, so credit and
\* subtraction agree exactly when op.Amount does not exceed the entry;
\* before the fork the ledger is left alone.
C33_RefundCredit ==
  OnRefundPath =>
    /\ Credited(InitTxFrom) = last.op.Amount
    /\ IsForkSlotValOpTracking(slot) =>
         /\ Subtracted = Min(last.op.Amount, Held(SyncPreVal, InitTxFrom))
         /\ (Credited(InitTxFrom) = Subtracted
               <=> last.op.Amount <= Held(SyncPreVal, InitTxFrom))
    /\ ~IsForkSlotValOpTracking(slot) => Subtracted = 0
C33_Witness ==
  /\ OnRefundPath /\ IsForkSlotValOpTracking(slot)
  /\ last.op.Amount > 0 /\ last.op.Amount < Held(SyncPreVal, InitTxFrom)
  /\ Credited(InitTxFrom) = Subtracted
C33_OverCreditedReached ==
  /\ OnRefundPath /\ IsForkSlotValOpTracking(slot)
  /\ Held(SyncPreVal, InitTxFrom) = MinDepositVal /\ Subtracted = MinDepositVal
  /\ Credited(InitTxFrom) = MinDepositVal + 50
C33_BeforeForkReached ==
  /\ OnRefundPath /\ ~IsForkSlotValOpTracking(slot)
  /\ Credited(InitTxFrom) > Held(SyncPreVal, InitTxFrom) /\ Subtracted = 0
C33_WholeEntryReached ==
  /\ OnRefundPath /\ IsForkSlotValOpTracking(slot)
  /\ last.op.Amount = Held(SyncPreVal, InitTxFrom) /\ Held(SyncPostVal, InitTxFrom) = 0
  /\ Credited(InitTxFrom) = Subtracted

\* ------------------------------------------------ one refund, request and confirmation
\* what the sender of the initiating tx deposited for the creator, in all
DepositedBy(a, c) ==
  SumAmounts({ h \in DepositsTo(c) : txs[h].from = a })
\* what the ledger entry of that sender lost since then
TotalReduced == DepositedBy(InitTxFrom, SyncCreator) - Held(SyncPostVal, InitTxFrom)
\* the first refund of a depositor: one Withdrawal request for the creator,
\* confirmed by the first sync operation, request and confirmation agreeing
\* on a positive amount
FirstRefund ==
  /\ OnRefundPath
  /\ WithdrawalsFor(SyncCreator) = {last.op.InitTxHash}
  /\ pre.nonces[Coordinator] = 0
  /\ InitTx.amount = last.op.Amount /\ last.op.Amount > 0
RequestedBeforeFork == ~IsForkSlotValOpTracking(InitTx.slot)
ConfirmedAfterFork == IsForkSlotValOpTracking(slot)

\* C34 as stated: for each refund of an insufficient deposit the
\* depositor's ledger entry is reduced exactly once, by the refunded amount,
\* across the Withdrawal request and its UpdateBalance confirmation,
\* whichever side of the operation-tracking fork each is processed on, a
\* request before the fork confirmed after it included.
C34_AsStated == FirstRefund => TotalReduced = last.op.Amount
\* What holds: request and confirmation on the same side of the fork reduce
\* the entry once; a request before the fork confirmed after it reduces it
\* twice, by the requested amount and again by the amount capped at what is
\* left.
C34_ReducedPerSide ==
  FirstRefund =>
    /\ (RequestedBeforeFork /\ ConfirmedAfterFork) =>
         TotalReduced = InitTx.amount
                        + Min(last.op.Amount, DepositedBy(InitTxFrom, SyncCreator) - InitTx.amount)
    /\ (RequestedBeforeFork /\ ~ConfirmedAfterFork) => TotalReduced = last.op.Amount
    /\ ~RequestedBeforeFork => (ConfirmedAfterFork /\ TotalReduced = last.op.Amount)
C34_Witness ==
  /\ FirstRefund /\ ~RequestedBeforeFork /\ ConfirmedAfterFork
  /\ TotalReduced = last.op.Amount /\ Held(SyncPostVal, InitTxFrom) > 0
C34_BothBeforeForkReached ==
  /\ FirstRefund /\ RequestedBeforeFork /\ ~ConfirmedAfterFork /\ TotalReduced = last.op.Amount
C34_StraddleReached ==
  /\ FirstRefund /\ RequestedBeforeFork /\ ConfirmedAfterFork
  /\ TotalReduced = 2 * last.op.Amount
C34_WholeEntryReached ==
  /\ FirstRefund /\ ~RequestedBeforeFork /\ last.op.Amount = MinDepositVal
  /\ Held(SyncPostVal, InitTxFrom) = 0

\* ------------------------------------------------ activation era and exit era
Exited(v) == v # Nil /\ v.ExitEra # MaxUint64

\* C35 as stated: in every reachable state a validator whose ExitEra is set
\* has ActivationEra strictly less than ExitEra, before and after the
\* sync-processing fork.
C35_AsStated ==
  \A a \in Addr : Exited(st.validators[a]) =>
    st.validators[a].ActivationEra < st.validators[a].ExitEra
\* What holds: a validator whose ExitEra is set was activated; a Deactivate
\* before the sync-processing fork leaves ActivationEra more than the
\* postponement before ExitEra; from the fork on it requires ActivationEra
\* before the era of the block context, which does not bound the ExitEra it
\* computes from the op's epoch.
C35_ExitAfterActivation ==
  /\ \A a \in Addr : Exited(st.validators[a]) => st.validators[a].ActivationEra # MaxUint64
  /\ (DeactivateSucceeded /\ ~IsForkSlotValSyncProc(slot)) =>
       SyncPostVal.ActivationEra + postpone < SyncPostVal.ExitEra
  /\ (DeactivateSucceeded /\ IsForkSlotValSyncProc(slot)) =>
       /\ SyncPostVal.ActivationEra < CurrentEra
       /\ SyncPostVal.ExitEra = ProcEra + postpone
C35_Witness ==
  /\ DeactivateSucceeded /\ ~IsForkSlotValSyncProc(slot)
  /\ SyncPostVal.ActivationEra < SyncPostVal.ExitEra
C35_AfterForkReached ==
  /\ DeactivateSucceeded /\ IsForkSlotValSyncProc(slot)
  /\ SyncPostVal.ActivationEra < SyncPostVal.ExitEra
C35_SameEraReached ==
  /\ DeactivateSucceeded /\ IsForkSlotValSyncProc(slot)
  /\ SyncPostVal.ExitEra = SyncPostVal.ActivationEra

\* ------------------------------------------------ ledger of an activated validator
Activated(v) == v # Nil /\ v.ActivationEra # MaxUint64
\* the last Deposit passed the checks made before the record is looked up
DepositPrechecked ==
  /\ DepositCall
  /\ DepositPrecheck(pre, Ctx(Nil, FALSE), last.from, last.toAddr, last.value, last.op) = ErrNone

\* C36: in every reachable state a validator whose ActivationEra is set has
\* an empty stake ledger and an empty set of deposit txs: Activate clears
\* both, every later Deposit for the creator is rejected as already
\* activated, and the requests and balance updates of an activated
\* validator leave its ledger alone.
C36_ActivatedHoldsNoStake ==
  /\ \A a \in Addr : Activated(st.validators[a]) =>
       (st.validators[a].Stake = EmptyStake /\ st.validators[a].DepositTxs = {})
  /\ (DepositPrechecked /\ Activated(PreVal)) =>
       (last.err = ErrDepositActivated /\ PostVal = PreVal)
  /\ (UpdateBalanceSucceeded /\ SyncPostVal.Stake # SyncPreVal.Stake) => ~Activated(SyncPreVal)
  /\ (WithdrawalSucceeded /\ PostVal.Stake # PreVal.Stake) => ~Activated(PreVal)
C36_Witness ==
  /\ DepositPrechecked /\ Activated(PreVal) /\ last.err = ErrDepositActivated
  /\ PostVal.Stake = EmptyStake
C36_ClearedReached ==
  /\ ActivateSucceeded /\ SyncPreVal.Stake # EmptyStake /\ SyncPreVal.DepositTxs # {}
  /\ SyncPostVal.Stake = EmptyStake /\ SyncPostVal.DepositTxs = {}
C36_WithdrawalReached ==
  /\ WithdrawalSucceeded /\ Activated(PreVal) /\ PostVal.Stake = EmptyStake
C36_UpdateBalanceReached ==
  /\ UpdateBalanceSucceeded /\ Activated(SyncPreVal) /\ SyncPostVal.Stake = EmptyStake
C36_RefundReached ==
  /\ OnRefundPath /\ SyncPreVal.Stake # SyncPostVal.Stake

\* ------------------------------------------------ order of the ranges over the share maps
\* the outcome of the last call on the same state, had its ranges over the
\* share maps taken the orders of iter
Execution(iter) ==
  Call(pre, CtxIn(last.saved, last.packFails, iter), last.from, last.toAddr, last.value,
       last.op, last.tx)
Executions == {Execution(iter) : iter \in Iterations(pre, last.op)}
\* the entries of a delegating-stake log, whatever their order
EntriesOf(l) == {l.Data[i] : i \in 1..Len(l.Data)}
\* two logs that differ at most in the order of the entries of their delegating-stake logs
SameUpToEntryOrder(l1, l2) ==
  /\ Len(l1) = Len(l2)
  /\ \A i \in 1..Len(l1) :
       IF l1[i].Evt = "DelegatingStake"
       THEN /\ l2[i].Evt = "DelegatingStake"
            /\ [l1[i] EXCEPT !.Data = << >>] = [l2[i] EXCEPT !.Data = << >>]
            /\ Len(l1[i].Data) = Len(l2[i].Data)
            /\ EntriesOf(l1[i]) = EntriesOf(l2[i])
       ELSE l1[i] = l2[i]

\* C37 as stated: two executions of the same UpdateBalance on the
\* delegating-stake path from the same state produce the same balances and
\* the same delegating-stake log, entry order included, whatever the order of
\* the ranges over the profit-share and stake-share maps.
C37_AsStated ==
  OnDelegatingPath =>
    \A e \in Executions : e.s.balances = st.balances /\ e.s.logs = st.logs

\* C37: two executions of the same UpdateBalance on the delegating-stake path
\* from the same state, whatever the order of their ranges over the share
\* maps, end with the same result, the same records, the same balances and
\* logs that hold the same entries; the order of the entries of the
\* delegating-stake log is the order of the ranges, so the logs of the two
\* executions are equal only up to that order.
C37_SameUpToEntryOrder ==
  OnDelegatingPath =>
    \A e \in Executions :
      /\ e.err = last.err
      /\ e.s.balances = st.balances
      /\ e.s.validators = st.validators
      /\ e.s.nonces = st.nonces
      /\ SameUpToEntryOrder(e.s.logs, st.logs)
C37_Witness ==
  /\ OnDelegatingPath /\ LastLog.Evt = "DelegatingStake" /\ Len(LastLog.Data) >= 2
  /\ \E e \in Executions : e.s.logs # st.logs /\ e.s.balances = st.balances
  /\ st.balances # pre.balances
\* a map with one holder: every execution emits the same log
C37_OneHolderReached ==
  /\ OnDelegatingPath /\ Len(LastLog.Data) = 2 /\ Cardinality(Executions) = 1
  /\ LastLog.Data[1].RuleType # LastLog.Data[2].RuleType
\* both maps ranged over in more than one order
C37_BothMapsReached ==
  /\ OnDelegatingPath /\ Cardinality({e.s.logs : e \in Executions}) = 12
  /\ Cardinality({e.s.balances : e \in Executions}) = 1

\* ------------------------------------------------ Dag: handlers, StartWork, workLoop, work
\* a panic ends the process: nothing runs after it
Alive == dag.panic = NoPanic
DagStep(d) ==
  /\ Alive
  /\ dag' = d
  /\ UNCHANGED <<st, slot, txs, pre, last, conf>>

\* HandleFinalize: spines = len(data.Spines), finErr: finalizer.Finalize fails,
\* badLF: the last finalized header has Height # Nr.  The result records what
\* Synchronising() answered, whether DagMu was taken (locked) and whether the
\* finalizer was called (worked)
FinalizationResult(d, spines, finErr, badLF) ==
  IF d.sync
  THEN [kind |-> "Finalize", synchronising |-> TRUE, Error |-> ErrSynchronization,
        locked |-> FALSE, worked |-> FALSE]
  ELSE LET e == IF spines > 0 /\ finErr THEN "finalize" ELSE ErrNone
       IN [kind |-> "Finalize", synchronising |-> FALSE,
           Error |-> IF ~badLF THEN e
                     ELSE IF e = ErrNone THEN "bad last finalized block"
                     ELSE "finalize, bad last finalized block",
           locked |-> TRUE, worked |-> spines > 0]
HandleFinalize ==
  /\ Alive
  /\ \E spines \in 0..1, finErr \in BOOLEAN, badLF \in BOOLEAN :
       DagStep([dag EXCEPT !.res = FinalizationResult(dag, spines, finErr, badLF)])

\* HandleGetCandidates: err: finalizer.GetFinalizingCandidates fails
CandidatesResult(d, err) ==
  IF d.sync
  THEN [kind |-> "GetCandidates", synchronising |-> TRUE, Error |-> ErrSynchronization,
        locked |-> FALSE, worked |-> FALSE]
  ELSE [kind |-> "GetCandidates", synchronising |-> FALSE,
        Error |-> IF err THEN "candidates" ELSE ErrNone, locked |-> TRUE, worked |-> TRUE]
HandleGetCandidates ==
  /\ Alive
  /\ \E err \in BOOLEAN : DagStep([dag EXCEPT !.res = CandidatesResult(dag, err)])

\* the environment: the downloader starts or ends a synchronisation, the
\* genesis time is reached, startTicker ticks (its channel buffers one tick)
Synchronising == Alive /\ DagStep([dag EXCEPT !.sync = ~@])
GenesisTime == ~dag.genesis /\ DagStep([dag EXCEPT !.genesis = TRUE])
StartTick == dag.tickerOn /\ ~dag.tick /\ DagStep([dag EXCEPT !.tick = TRUE])

\* a workLoop blocked in `d.errChan <- err` (workLoop) or in
\* `d.errChan <- creator.ErrSynchronization` (work)
Sending(w) == dag.wl[w] \in {"sendCreatorsErr", "sendSync"}
Senders == {w \in Workers : Sending(w)}
\* err := <-d.errChan taking the error of sender s, which goes on
Receive(d, s) ==
  [d EXCEPT !.wl[s] = IF @ = "sendCreatorsErr" THEN "work" ELSE "create", !.received = @ + 1]

\* close(ch): a close of a closed channel panics, and so does a send blocked
\* on the channel being closed
Close(d, ch) ==
  LET counted == [d EXCEPT !.closes[ch] = @ + 1] IN
  IF d[ch] = "closed" THEN [counted EXCEPT !.panic = "close of closed channel"]
  ELSE IF ch = "errChan" /\ \E w \in Workers : d.wl[w] \in {"sendCreatorsErr", "sendSync"}
       THEN [counted EXCEPT ![ch] = "closed", !.panic = "send on closed channel"]
  ELSE [counted EXCEPT ![ch] = "closed"]
\* the two closes of `case <-d.exitChan` (exit1, exit2) and of `case err := <-d.errChan` (err1, err2)
Closing == {"exit1", "exit2", "err1", "err2"}
ChanOf(pc) == IF pc \in {"exit1", "err2"} THEN "exitChan" ELSE "errChan"
AfterClose(pc) == IF pc = "exit1" THEN "exit2" ELSE IF pc = "err1" THEN "err2" ELSE "done"

\* StartWork: called once; top of the loop; the branch after the genesis time
\* (stop the ticker, start workLoop); the select; the closes of a case
StartWork == dag.sw = "off" /\ DagStep([dag EXCEPT !.sw = "loop", !.tickerOn = TRUE])
StartWorkTime ==
  dag.sw = "loop" /\ DagStep([dag EXCEPT !.sw = IF dag.genesis THEN "stop" ELSE "select"])
StartWorkStop == dag.sw = "stop" /\ DagStep([dag EXCEPT !.sw = "go", !.tickerOn = FALSE])
StartWorkGo ==
  /\ dag.sw = "go"
  /\ \E w \in Workers :
       /\ dag.wl[w] = "none" /\ \A v \in 1..(w - 1) : dag.wl[v] # "none"
       /\ DagStep([dag EXCEPT !.sw = "select", !.wl[w] = "select", !.started = @ + 1])
StartWorkSelect ==
  /\ dag.sw = "select"
  /\ \/ dag.exitChan = "closed" /\ DagStep([dag EXCEPT !.sw = "exit1"])
     \/ dag.errChan = "closed" /\ DagStep([dag EXCEPT !.sw = "err1"])
     \/ \E s \in Senders : DagStep([Receive(dag, s) EXCEPT !.sw = "err1"])
     \/ dag.tick /\ DagStep([dag EXCEPT !.sw = "loop", !.tick = FALSE,
                                        !.staleTicks = IF dag.tickerOn THEN @ ELSE @ + 1])
StartWorkClose ==
  /\ dag.sw \in Closing
  /\ DagStep([Close(dag, ChanOf(dag.sw)) EXCEPT !.sw = AfterClose(dag.sw)])

\* workLoop: the select (the slot ticker delivers the slots up to MaxDagSlot);
\* GetCreatorsBySlot, which may fail; the closes of a case
workLoopSelect(w) ==
  /\ dag.wl[w] = "select"
  /\ \/ dag.exitChan = "closed" /\ DagStep([dag EXCEPT !.wl[w] = "exit1"])
     \/ dag.errChan = "closed" /\ DagStep([dag EXCEPT !.wl[w] = "err1"])
     \/ \E s \in Senders : DagStep([Receive(dag, s) EXCEPT !.wl[w] = "err1"])
     \/ /\ dag.nslot[w] <= MaxDagSlot
        /\ DagStep([dag EXCEPT !.nslot[w] = @ + 1, !.wslot[w] = dag.nslot[w],
                               !.wl[w] = IF dag.nslot[w] = 0 THEN "select" ELSE "creators"])
workLoopCreators(w) ==
  /\ dag.wl[w] = "creators"
  /\ \E err \in BOOLEAN :
       DagStep([dag EXCEPT !.wl[w] = IF err THEN "sendCreatorsErr" ELSE "work"])
workLoopClose(w) ==
  /\ dag.wl[w] \in Closing
  /\ DagStep([Close(dag, ChanOf(dag.wl[w])) EXCEPT !.wl[w] = AfterClose(dag.wl[w])])
\* a send on a closed channel panics
SendOnClosed(w) ==
  /\ Sending(w) /\ dag.errChan = "closed"
  /\ DagStep([dag EXCEPT !.panic = "send on closed channel"])

\* work: the check of the downloader, with the send that follows it; then the
\* block creation (create: the creator runs, the dag is short enough and an
\* assigned creator is one of the accounts)
work(w) ==
  /\ dag.wl[w] = "work"
  /\ DagStep([dag EXCEPT !.wsync[w] = dag.sync,
                         !.wl[w] = IF dag.sync THEN "sendSync" ELSE "create"])
workCreate(w) ==
  /\ dag.wl[w] = "create"
  /\ \E create \in BOOLEAN :
       DagStep([dag EXCEPT !.wl[w] = "select",
                  !.blocks = IF create THEN @ \cup {dag.wslot[w]} ELSE @,
                  !.syncBlocks = IF create /\ dag.wsync[w] /\ dag.sync
                                 THEN @ \cup {dag.wslot[w]} ELSE @])

StartWorkSteps ==
  StartWork \/ StartWorkTime \/ StartWorkStop \/ StartWorkGo \/ StartWorkSelect \/ StartWorkClose
workLoopSteps(w) ==
  workLoopSelect(w) \/ workLoopCreators(w) \/ workLoopClose(w) \/ SendOnClosed(w)
  \/ work(w) \/ workCreate(w)
NextDag ==
  \/ HandleFinalize \/ HandleGetCandidates
  \/ Synchronising \/ GenesisTime \/ StartTick
  \/ StartWorkSteps
  \/ \E w \in Workers : workLoopSteps(w)
SpecDag == Init /\ [][NextDag]_vars
\* StartWork and the goroutines it starts, without the handlers; the scheduler
\* runs every goroutine that can take a step
NextWork ==
  \/ Synchronising \/ GenesisTime \/ StartTick
  \/ StartWorkSteps
  \/ \E w \in Workers : workLoopSteps(w)
SpecWork ==
  Init /\ [][NextWork]_vars /\ WF_vars(StartWorkSteps) /\ \A w \in Workers : WF_vars(workLoopSteps(w))

\* ------------------------------------------------ the Dag while the downloader synchronises
\* the last handler was answered Synchronising by the downloader
HandlerSkipped == dag.res # Nil /\ dag.res.synchronising
\* a block created by a call of work that found the downloader synchronising,
\* created while it still synchronises
BlockWhileSynchronising == dag.syncBlocks # {}
\* w is in a call of work that found the downloader synchronising
WorkSkipping(w) ==
  dag.wsync[w] /\ dag.wl[w] \in {"sendSync", "create"}

\* C38 as stated: while the downloader reports Synchronising, HandleFinalize
\* and HandleGetCandidates return the synchronization error without
\* finalizing or collecting candidates, and work creates no block for its slot.
C38_AsStated ==
  /\ HandlerSkipped =>
       (dag.res.Error = ErrSynchronization /\ ~dag.res.locked /\ ~dag.res.worked)
  /\ ~BlockWhileSynchronising

\* C38: while the downloader reports Synchronising, HandleFinalize and
\* HandleGetCandidates return a result that carries the synchronization error,
\* without taking DagMu, finalizing or collecting candidates (and they return
\* that error in no other case); work sends the synchronization error on
\* errChan and goes on once it has been received: until then it creates no
\* block, after that it creates the block of the slot as if the downloader
\* were idle.
C38_HandlersSkipWorkReports ==
  /\ HandlerSkipped =>
       (dag.res.Error = ErrSynchronization /\ ~dag.res.locked /\ ~dag.res.worked)
  /\ (dag.res # Nil /\ ~dag.res.synchronising) =>
       (dag.res.Error # ErrSynchronization /\ dag.res.locked)
  /\ \A w \in Workers :
       /\ (dag.wl[w] = "sendSync") => dag.wsync[w]
       /\ (WorkSkipping(w) /\ dag.wl[w] = "create") => dag.received >= 1
  /\ BlockWhileSynchronising => (dag.received >= 1 /\ dag.syncBlocks \subseteq dag.blocks)
C38_Witness ==
  /\ HandlerSkipped /\ dag.res.Error = ErrSynchronization
  /\ BlockWhileSynchronising /\ dag.sync
\* work waits on errChan and the slot has no block yet
C38_WaitingReached ==
  \E w \in Workers : dag.wl[w] = "sendSync" /\ dag.sync /\ dag.wslot[w] \notin dag.blocks
C38_FinalizeReached ==
  /\ HandlerSkipped /\ dag.res.kind = "Finalize" /\ dag.sync
C38_CandidatesReached ==
  /\ HandlerSkipped /\ dag.res.kind = "GetCandidates" /\ dag.sync
\* the handlers at work when the downloader is idle
C38_IdleReached ==
  /\ dag.res # Nil /\ ~dag.res.synchronising /\ dag.res.worked /\ dag.res.Error = ErrNone
  /\ ~dag.sync

\* ------------------------------------------------ the channels of StartWork and workLoop
ClosedTwice(ch) == dag.closes[ch] >= 2
SendWaits == \E w \in Workers : Sending(w)
\* what holds in every state of StartWork and its goroutines
ChannelsSafety ==
  /\ dag.started <= 1 + dag.staleTicks /\ dag.staleTicks <= 1
  /\ \A ch \in {"exitChan", "errChan"} :
       /\ dag.closes[ch] <= 2
       /\ dag.closes[ch] >= 1 => (dag[ch] = "closed" /\ dag.received >= 1)
       /\ ClosedTwice(ch) => dag.panic = "close of closed channel"
  /\ (dag.received = 0 /\ Alive) => (dag.exitChan = "open" /\ dag.errChan = "open")
  /\ dag.panic = "close of closed channel" => \E ch \in {"exitChan", "errChan"} : ClosedTwice(ch)

\* C39 as stated (its safety part): in every interleaving of StartWork and
\* workLoop, exitChan and errChan are each closed at most once, with no close of
\* an already closed channel, and at most one workLoop goroutine is started.
C39_AsStated ==
  /\ ~ClosedTwice("exitChan") /\ ~ClosedTwice("errChan")
  /\ dag.panic # "close of closed channel"
  /\ dag.started <= 1

\* C39: StartWork starts one workLoop, and a second one only when a tick was
\* waiting in the channel of the ticker it stopped; no channel is closed before
\* an error was received from errChan; the goroutine that receives the first
\* error closes both channels, and a goroutine whose select then finds a channel
\* closed closes it a second time, which panics; an error a workLoop
\* sends on errChan (from workLoop or work) is eventually received, unless the
\* process panics first (a send on the closed errChan panics too).
C39_ReceivedThenClosedAgain ==
  /\ []ChannelsSafety
  /\ \A w \in Workers : Sending(w) ~> (~Sending(w) \/ ~Alive)
C39_Witness ==
  /\ dag.received >= 1 /\ dag.sw = "done" /\ dag.started = 1
  /\ dag.closes["errChan"] = 1 /\ ClosedTwice("exitChan")
  /\ dag.panic = "close of closed channel"
\* an error received and both channels closed once, no panic yet
C39_ReceivedReached ==
  /\ Alive /\ dag.received = 1 /\ dag.sw = "done"
  /\ dag.closes = [exitChan |-> 1, errChan |-> 1]
  /\ \E w \in Workers : dag.wl[w] = "create"
C39_TwoLoopsReached == dag.started = 2 /\ dag.staleTicks = 1
C39_SendOnClosedReached ==
  /\ dag.panic = "send on closed channel" /\ dag.closes["errChan"] = 1
  /\ dag.received >= 1
\* a workLoop received the error of the other one and StartWork closed again
C39_StartWorkPanicsReached ==
  /\ dag.panic = "close of closed channel" /\ dag.sw \in {"exit2", "err2"}
  /\ \E w \in Workers : dag.wl[w] = "done"
C39_WaitingReached == SendWaits /\ Alive /\ dag.sw = "select"

====
